---- MODULE Spec2Model ----
(***************************************************************************)
(* A model of geo-llama: the Gazetteer client (geo_llama/gazetteer.py),    *)
(* the GeoLlama pipeline orchestrator (geo_llama/main.py) and the repair   *)
(* and validation of the models' answers (geo_llama/model.py).             *)
(*                                                                         *)
(* Python values are tagged records [t |-> type, v |-> payload]; a call's  *)
(* outcome is either a returned value or a raised exception.  Strings are  *)
(* TLA+ strings; the HTTP backends and the language models are the         *)
(* environment, whose answers are drawn from small sets.                   *)
(***************************************************************************)
EXTENDS Integers, Sequences, FiniteSets, TLC

VARIABLES
    \* ---- one Gazetteer instance (gazetteer.py:28-39)
    gazetteer_source,   \* self.gazetteer_source
    base_url,           \* self.base_url, NoAttr when __init__ never set it
    username,           \* self.username, NoAttr when __init__ never set it
    cache,              \* self.cache: a dict, here a function on its keys
    \* ---- history of the client calls made one after the other
    ctor,               \* the arguments the instance was constructed with
    last,               \* the most recent query() call and what it did
    prev,               \* the call before it
    calls,              \* number of query() calls made so far
    succeeded,          \* the lookups that succeeded: [q, value] pairs
    \* ---- concurrent callers of query()
    pc,                 \* pc[c]: "idle", "waiting" (request outstanding), "done"
    inflight,           \* inflight[c]: the call caller c is executing
    \* ---- a direct call of format_geonames_response
    response,           \* the argument: a list of GeoNames records
    formatted,          \* the value returned, NotCalled before the call
    \* ---- one GeoLlama.geoparse call (main.py:52-76)
    text,               \* the argument
    gp_pc,              \* "idle", "toponyms", "matches", "location", "done"
    toponyms,           \* the list get_toponyms returned
    idx,                \* position of the for loop in toponyms
    matches,            \* what get_matches returned for toponyms[idx]
    output,             \* the records collected so far
    result,             \* what geoparse returned or raised
    events,             \* the calls made to the models and the gazetteer, in order
    answers,            \* the answer of each disambiguation call and how the call ended
    \* ---- a direct call of one function of the repair / validation engine
    fn,                 \* the function called, "-" before the call
    inputs,             \* its arguments
    ret                 \* what it returned or raised

gazVars == <<gazetteer_source, base_url, username, cache, ctor>>
seqVars == <<last, prev, calls, succeeded>>
concVars == <<pc, inflight>>
fmtVars == <<response, formatted>>
geoVars == <<text, gp_pc, toponyms, idx, matches, output, result, events, answers>>
pureVars == <<fn, inputs, ret>>
vars == <<gazVars, seqVars, concVars, fmtVars, geoVars, pureVars>>

(***************************************************************************)
(* Bounds of the model.                                                    *)
(***************************************************************************)
MaxCalls == 3       \* query() calls in one behaviour of the sequential client
NumCallers == 2     \* threads calling query() concurrently
MaxRecords == 2     \* records in a GeoNames response handed to the formatter
MaxToponyms == 2    \* toponyms in one answer of the extraction model
MaxMatches == 2     \* candidates handed to validate_json in a direct call
MaxNames == 3       \* toponyms handed to validate_toponyms in a direct call
MaxTokens == 3      \* tokens in a free token list handed to add_missing_keys, get_word
MaxLocations == 2   \* locations geoparse hands to the pipeline
MaxChars == 4       \* characters in a free text handed to extract_words

(***************************************************************************)
(* Python values.                                                          *)
(***************************************************************************)
PyNone == [t |-> "None", v |-> <<>>]
PyStr(s) == [t |-> "str", v |-> s]
PyList(s) == [t |-> "list", v |-> s]
PyDict(d) == [t |-> "dict", v |-> d]

\* bool(v): None, '' and empty containers are falsy
Truthy(x) ==
    CASE x.t = "None" -> FALSE
      [] x.t = "str"  -> x.v # ""
      [] x.t = "list" -> Len(x.v) > 0
      [] x.t = "dict" -> DOMAIN x.v # {}
      [] OTHER        -> TRUE

Ret(x) == [kind |-> "return", value |-> x, exc |-> "-"]
Raise(e) == [kind |-> "raise", value |-> PyNone, exc |-> e]

\* an attribute __init__ did not set
NoAttr == PyStr("<no attribute>")

(***************************************************************************)
(* str.lower(), on the letters the configuration strings use.              *)
(***************************************************************************)
UpperToLower ==
    [c \in {"A","B","C","D","E","F","G","H","I","J","K","L","M",
            "N","O","P","Q","R","S","T","U","V","W","X","Y","Z"} |->
        CASE c = "A" -> "a" [] c = "B" -> "b" [] c = "C" -> "c" [] c = "D" -> "d"
          [] c = "E" -> "e" [] c = "F" -> "f" [] c = "G" -> "g" [] c = "H" -> "h"
          [] c = "I" -> "i" [] c = "J" -> "j" [] c = "K" -> "k" [] c = "L" -> "l"
          [] c = "M" -> "m" [] c = "N" -> "n" [] c = "O" -> "o" [] c = "P" -> "p"
          [] c = "Q" -> "q" [] c = "R" -> "r" [] c = "S" -> "s" [] c = "T" -> "t"
          [] c = "U" -> "u" [] c = "V" -> "v" [] c = "W" -> "w" [] c = "X" -> "x"
          [] c = "Y" -> "y" [] OTHER   -> "z"]

RECURSIVE lower(_)
lower(s) ==
    IF s = "" THEN ""
    ELSE LET c == SubSeq(s, 1, 1)
         IN (IF c \in DOMAIN UpperToLower THEN UpperToLower[c] ELSE c)
                \o lower(SubSeq(s, 2, Len(s)))

(***************************************************************************)
(* dict helpers.                                                           *)
(***************************************************************************)
EmptyDict == [k \in {} |-> PyNone]

\* d.get(k, None)
DictGet(d, k) == IF k \in DOMAIN d THEN d[k] ELSE PyNone

\* d.update({k: x})
DictUpdate(d, k, x) == [kk \in DOMAIN d \cup {k} |-> IF kk = k THEN x ELSE d[kk]]

\* m.get(k, '') on a record of strings
GetOrEmpty(m, k) == IF k \in DOMAIN m THEN m[k] ELSE ""

\* sep.join(items)
RECURSIVE join(_, _)
join(sep, items) ==
    IF Len(items) = 0 THEN ""
    ELSE IF Len(items) = 1 THEN items[1]
    ELSE items[1] \o sep \o join(sep, Tail(items))

\* the sequences over S of length at most n
RECURSIVE SeqsUpTo(_, _)
SeqsUpTo(S, n) ==
    IF n = 0 THEN {<<>>}
    ELSE SeqsUpTo(S, n - 1) \cup {Append(l, x) : l \in {m \in SeqsUpTo(S, n - 1) : Len(m) = n - 1}, x \in S}

(***************************************************************************)
(* The environment: what the callers pass and what the backends answer.    *)
(***************************************************************************)
NominatimURL == "https://nominatim.openstreetmap.org/"
GeoNamesURL == "http://api.geonames.org/"

\* the default of __init__'s gazetteer_source parameter
DefaultSource == "nominatm"
\* the key both backends store their result under
CacheKey == "query"

\* an argument the caller left out
Absent == "<absent>"
SourceArgs == {Absent, "nominatim", "geonames", "Nominatim"}
UsernameArgs == {PyNone, PyStr("test_name")}

Queries == {"Paris", "query"}
UserAgents == {PyNone, PyStr("gl-test")}

\* candidate records in Nominatim's native shape
Cand1 == [name |-> "Paris", lat |-> "48.85", lon |-> "2.35", display_name |-> "Paris, France"]
Cand2 == [name |-> "Paris", lat |-> "33.66", lon |-> "-95.55", display_name |-> "Paris, Texas"]
CandidateLists == {<<>>, <<Cand1>>, <<Cand1, Cand2>>}

\* records of a GeoNames 'geonames' array; every key is optional
GeoName1 == [name |-> "Paris", adminName1 |-> "Ile-de-France", countryName |-> "France", lat |-> "48.85", lng |-> "2.35"]
GeoName2 == [name |-> "Paris", countryName |-> "France", lat |-> "48.85", lng |-> "2.35"]
GeoNameLists == {<<>>, <<GeoName1>>, <<GeoName2, GeoName1>>}

\* a response body: either text that is not JSON, or the JSON value it holds
BadBody == [parses |-> FALSE, json |-> PyNone]
JsonBody(x) == [parses |-> TRUE, json |-> x]
\* the JSON object a backend sends to report an error
NominatimError == JsonBody(PyDict([error |-> PyStr("Internal Server Error")]))
GeoNamesError == JsonBody(PyDict([status |-> PyStr("user does not exist")]))

TransportError == [kind |-> "error", status |-> 0, body |-> BadBody]
NoResponse == [kind |-> "none", status |-> 0, body |-> BadBody]
Http(s, b) == [kind |-> "http", status |-> s, body |-> b]

\* Nominatim answers 200 with an array of matches, or an error status with
\* an error object; either body may also be cut short or not JSON at all
NominatimResponses ==
    {Http(200, JsonBody(PyList(l))) : l \in CandidateLists}
        \cup {Http(200, BadBody), Http(500, BadBody), Http(500, NominatimError)}

\* GeoNames answers 200 with an object holding the 'geonames' array, and
\* reports an error as an object without it
GeoNamesResponses ==
    {Http(200, JsonBody(PyDict([geonames |-> PyList(l)]))) : l \in GeoNameLists}
        \cup {Http(200, BadBody), Http(200, GeoNamesError), Http(500, BadBody),
              Http(500, GeoNamesError)}

\* what the backend contacted can answer to one request, or the transport fail
Responses(req) ==
    {TransportError} \cup
        (IF req.host = GeoNamesURL THEN GeoNamesResponses ELSE NominatimResponses)

(***************************************************************************)
(* Gazetteer.__init__ (gazetteer.py:28-39): the fields of an instance      *)
(* constructed with the arguments args.                                    *)
(***************************************************************************)
InitSource(args) ==
    IF args.gazetteer_source = Absent THEN DefaultSource ELSE args.gazetteer_source

InitBaseUrl(args) ==
    IF InitSource(args) = "nominatim" THEN PyStr(NominatimURL)
    ELSE IF InitSource(args) = "geonames" THEN PyStr(GeoNamesURL)
    ELSE NoAttr

InitUsername(args) ==
    IF InitSource(args) = "nominatim" THEN NoAttr
    ELSE IF InitSource(args) = "geonames" THEN args.geonames_username
    ELSE NoAttr

GazetteerInit ==
    \E s \in SourceArgs, u \in UsernameArgs :
        LET args == [gazetteer_source |-> s, geonames_username |-> u]
        IN /\ ctor = args
           /\ gazetteer_source = InitSource(args)
           /\ base_url = InitBaseUrl(args)
           /\ username = InitUsername(args)
           /\ cache = EmptyDict

(***************************************************************************)
(* Gazetteer.format_geonames_response (gazetteer.py:126-142).              *)
(***************************************************************************)
FormatRecord(m) ==
    LET address1 == GetOrEmpty(m, "name")
        address2 == GetOrEmpty(m, "adminName1")
        address3 == GetOrEmpty(m, "countryName")
        address == join(", ", <<address1, address2, address3>>)
    IN [name |-> GetOrEmpty(m, "name"),
        lat |-> GetOrEmpty(m, "lat"),
        lon |-> GetOrEmpty(m, "lng"),
        display_name |-> address]

format_geonames_response(resp) == [i \in 1..Len(resp) |-> FormatRecord(resp[i])]

(***************************************************************************)
(* Gazetteer._nominatim_query (gazetteer.py:71-96), in two halves: up to   *)
(* the moment session.get is issued, and from the response on.  A step of  *)
(* the code yields [done, outcome, cache, req]: done is FALSE while the    *)
(* request req is outstanding.                                             *)
(***************************************************************************)
Finished(o, c) == [done |-> TRUE, outcome |-> o, cache |-> c, req |-> <<>>]
Outstanding(r, c) == [done |-> FALSE, outcome |-> Ret(PyNone), cache |-> c, req |-> <<r>>]

_nominatim_query(c, query, user_agent) ==
    IF base_url = NoAttr THEN Finished(Raise("AttributeError"), c)
    ELSE Outstanding([host |-> base_url.v, q |-> query, user_agent |-> user_agent], c)

\* requests.Response.json() raises requests.exceptions.JSONDecodeError, a
\* RequestException, on a body that is not JSON: both failures reach line 94
_nominatim_reply(c, query, r) ==
    IF r.kind = "error" \/ ~r.body.parses THEN Finished(Ret(PyList(<<>>)), c)
    ELSE Finished(Ret(r.body.json), DictUpdate(c, CacheKey, r.body.json))

(***************************************************************************)
(* Gazetteer._geonames_query (gazetteer.py:98-124), in the same two halves.*)
(***************************************************************************)
_geonames_query(c, query) ==
    IF base_url = NoAttr \/ username = NoAttr THEN Finished(Raise("AttributeError"), c)
    ELSE Outstanding([host |-> base_url.v, q |-> query, user_agent |-> PyNone], c)

_geonames_reply(c, query, r) ==
    IF r.kind = "error" \/ ~r.body.parses
    THEN Finished(Ret(PyDict([geonames |-> PyList(<<>>)])), c)
    ELSE IF r.body.json.t # "dict" THEN Finished(Raise("TypeError"), c)
    ELSE IF "geonames" \notin DOMAIN r.body.json.v THEN Finished(Raise("KeyError"), c)
    ELSE LET out == PyList(format_geonames_response(r.body.json.v.geonames.v))
         IN Finished(Ret(out), DictUpdate(c, CacheKey, out))

\* positional arguments besides self: line 69 passes (query, self.username),
\* line 98 declares (query)
GeonamesArgsPassed == 2
GeonamesParams == 1

(***************************************************************************)
(* Gazetteer.query (gazetteer.py:41-69) up to the request, and the         *)
(* continuation of the backend method once the response r is there.        *)
(***************************************************************************)
\* query() without the credential checks of lines 62-63 and 67-68
query_NoCredentialCheck(c, q, user_agent) ==
    LET cache_out == DictGet(c, q)
    IN IF Truthy(cache_out) THEN Finished(Ret(cache_out), c)
       ELSE IF lower(gazetteer_source) = "nominatim" THEN _nominatim_query(c, q, user_agent)
       ELSE IF lower(gazetteer_source) = "geonames"
       THEN IF GeonamesArgsPassed # GeonamesParams THEN Finished(Raise("TypeError"), c)
            ELSE _geonames_query(c, q)
       ELSE Finished(Ret(PyNone), c)

query(c, q, user_agent) ==
    LET cache_out == DictGet(c, q)
    IN IF Truthy(cache_out) THEN Finished(Ret(cache_out), c)
       ELSE IF lower(gazetteer_source) = "nominatim"
       THEN IF ~Truthy(user_agent) THEN Finished(Raise("ValueError"), c)
            ELSE _nominatim_query(c, q, user_agent)
       ELSE IF lower(gazetteer_source) = "geonames"
       THEN IF username = NoAttr THEN Finished(Raise("AttributeError"), c)
            ELSE IF ~Truthy(username) THEN Finished(Raise("ValueError"), c)
            ELSE IF GeonamesArgsPassed # GeonamesParams THEN Finished(Raise("TypeError"), c)
            ELSE _geonames_query(c, q)
       ELSE Finished(Ret(PyNone), c)

query_reply(c, q, req, r) ==
    IF req.host = GeoNamesURL THEN _geonames_reply(c, q, r) ELSE _nominatim_reply(c, q, r)

(***************************************************************************)
(* The sequential client: query() calls made one after the other on one    *)
(* instance, each run to completion (gazetteer.py:41-124).  last and prev  *)
(* record what the two most recent calls were given and what they did.     *)
(***************************************************************************)
NoCall ==
    [q |-> "", user_agent |-> PyNone, before |-> EmptyDict, req |-> <<>>,
     resp |-> NoResponse, outcome |-> Ret(PyNone)]

IdleCallers == [c \in 1..NumCallers |-> "idle"]
NoInflight == [c \in 1..NumCallers |-> [q |-> "", req |-> <<>>, outcome |-> Ret(PyNone)]]
NotCalled == PyStr("<not called>")

ConcIdle == pc = IdleCallers /\ inflight = NoInflight
FmtIdle == response = <<>> /\ formatted = NotCalled
GeoIdle ==
    /\ text = PyNone /\ gp_pc = "idle" /\ toponyms = <<>> /\ idx = 0
    /\ matches = <<>> /\ output = <<>> /\ result = Ret(PyNone) /\ events = <<>>
    /\ answers = <<>>
PureIdle == fn = "-" /\ inputs = <<>> /\ ret = Ret(PyNone)

Init ==
    /\ GazetteerInit
    /\ last = NoCall /\ prev = NoCall /\ calls = 0 /\ succeeded = {}
    /\ ConcIdle
    /\ FmtIdle
    /\ GeoIdle
    /\ PureIdle

\* a response that carries a result: status 200 and a body of the expected JSON
SuccessResponse(r) ==
    /\ r.kind = "http" /\ r.status = 200 /\ r.body.parses
    /\ \/ r.body.json.t = "list"
       \/ r.body.json.t = "dict" /\ "geonames" \in DOMAIN r.body.json.v
\* a response that is a failure: transport error, other status, unexpected body
FailureResponse(r) == r.kind # "none" /\ ~SuccessResponse(r)

\* the bookkeeping of a completed call
Completed(q, user_agent, req, r, fin) ==
    /\ cache' = fin.cache
    /\ succeeded' = IF SuccessResponse(r) /\ fin.outcome.kind = "return"
                    THEN succeeded \cup {[q |-> q, value |-> fin.outcome.value]}
                    ELSE succeeded
    /\ prev' = last
    /\ last' = [q |-> q, user_agent |-> user_agent, before |-> cache, req |-> req,
                resp |-> r, outcome |-> fin.outcome]
    /\ calls' = calls + 1
    /\ UNCHANGED <<gazetteer_source, base_url, username, ctor, concVars, fmtVars, geoVars, pureVars>>

Query(q, user_agent) ==
    /\ calls < MaxCalls
    /\ LET pre == query(cache, q, user_agent)
       IN IF pre.done
          THEN Completed(q, user_agent, <<>>, NoResponse, pre)
          ELSE \E r \in Responses(pre.req[1]) :
                  Completed(q, user_agent, pre.req, r,
                            query_reply(pre.cache, q, pre.req[1], r))

Next == \E q \in Queries, ua \in UserAgents : Query(q, ua)

Spec == Init /\ [][Next]_vars

(***************************************************************************)
(* Claims about the sequential client, checked under Spec.                 *)
(***************************************************************************)
NominatimBacked == lower(gazetteer_source) = "nominatim"
GeoNamesBacked == lower(gazetteer_source) = "geonames"
HasUsername == username # NoAttr /\ Truthy(username)

\* the call k was made with the credential its backend needs
ValidCredentials(k) ==
    \/ NominatimBacked /\ Truthy(k.user_agent)
    \/ GeoNamesBacked /\ HasUsername

\* the uniform candidate shape of section 4.6: display_name joins the
\* non-empty values among name, adminName1 and countryName
NonEmpty(items) == SelectSeq(items, LAMBDA x : x # "")
CandidateShape(m) ==
    [name |-> GetOrEmpty(m, "name"),
     lat |-> GetOrEmpty(m, "lat"),
     lon |-> GetOrEmpty(m, "lng"),
     display_name |-> join(", ", NonEmpty(<<GetOrEmpty(m, "name"),
                                            GetOrEmpty(m, "adminName1"),
                                            GetOrEmpty(m, "countryName")>>))]

\* C1: two query(q) calls issued one after the other, each with valid
\* credentials, cause at most one network request in total and the second
\* one is served from the cache.  (Pairs whose first lookup failed are left
\* out: a failed lookup caches nothing.)
C1_TwoCallsOneRequest ==
    (/\ calls >= 2 /\ last.q = prev.q
     /\ ValidCredentials(prev) /\ ValidCredentials(last)
     /\ ~FailureResponse(prev.resp))
        => /\ Len(prev.req) + Len(last.req) <= 1
           /\ last.req = <<>>

\* C2: whenever the cache holds an entry under the exact query string q,
\* whatever the stored list, query(q) returns that entry, issues no request,
\* needs no user_agent or username, and leaves the cache unchanged.
C2_HitReturnsEntry ==
    (calls >= 1 /\ last.q \in DOMAIN last.before)
        => /\ last.outcome = Ret(last.before[last.q])
           /\ last.req = <<>>
           /\ cache = last.before

\* C3: every key of the cache is a query string passed to a lookup that
\* succeeded, its value is the list that lookup returned, and a lookup that
\* failed adds or changes no entry.
C3_CacheKeysAreQueries ==
    /\ \A k \in DOMAIN cache :
          \E l \in succeeded : l.q = k /\ l.value = cache[k]
    /\ (calls >= 1 /\ FailureResponse(last.resp)) => cache = last.before

\* C4: when the response has a non-success status, or a body that is not
\* the expected JSON, or the transport fails, query returns an empty list
\* and does not raise.
C4_FailureGivesEmptyList ==
    (calls >= 1 /\ FailureResponse(last.resp))
        => last.outcome = Ret(PyList(<<>>))

\* C5: on a cache miss, query on a Nominatim-backed Gazetteer without a
\* user_agent, and on a GeoNames-backed Gazetteer constructed without a
\* username, raises ValueError, and no network request has been issued.
C5_MissingCredentialRaises ==
    (/\ calls >= 1 /\ last.q \notin DOMAIN last.before
     /\ \/ NominatimBacked /\ ~Truthy(last.user_agent)
        \/ gazetteer_source = "geonames" /\ ctor.geonames_username.t = "None")
        => /\ last.outcome = Raise("ValueError")
           /\ last.req = <<>>
           /\ cache = last.before

\* a ValueError for a missing user_agent while the cache already holds an
\* entry, under another key than the one asked for
C5_Witness ==
    /\ calls >= 2 /\ NominatimBacked
    /\ DOMAIN last.before # {} /\ last.q \notin DOMAIN last.before
    /\ ~Truthy(last.user_agent)
    /\ last.outcome = Raise("ValueError") /\ last.req = <<>>

\* C6: on a GeoNames-backed Gazetteer constructed with a username, query(q)
\* on a cache miss calls the GeoNames backend once, does not raise, and
\* returns the 'geonames' array of the response in the uniform shape.
C6_GeoNamesQueryReturns ==
    (/\ calls >= 1 /\ gazetteer_source = "geonames" /\ HasUsername
     /\ last.q \notin DOMAIN last.before)
        => /\ Len(last.req) = 1 /\ last.req[1].host = GeoNamesURL
           /\ last.outcome.kind = "return"
           /\ SuccessResponse(last.resp) =>
                 last.outcome.value =
                    PyList([i \in 1..Len(last.resp.body.json.v.geonames.v) |->
                              CandidateShape(last.resp.body.json.v.geonames.v[i])])

\* C8: a Gazetteer constructed with no arguments is configured for
\* Nominatim: its base_url is the Nominatim URL, and query(q, user_agent) on
\* a cache miss sends the request to Nominatim and returns a list.
C8_DefaultIsNominatim ==
    (/\ calls >= 1 /\ ctor.gazetteer_source = Absent
     /\ Truthy(last.user_agent) /\ last.q \notin DOMAIN last.before)
        => /\ base_url = PyStr(NominatimURL)
           /\ Len(last.req) = 1 /\ last.req[1].host = NominatimURL
           /\ last.outcome.kind = "return" /\ last.outcome.value.t = "list"

(***************************************************************************)
(* Concurrent callers: NumCallers threads each call query() once on the    *)
(* shared instance.  session.get (gazetteer.py:87, 115) is where a thread  *)
(* is suspended, so a call is two steps: Begin runs query() up to the      *)
(* request, Reply runs the backend method from the response on.            *)
(***************************************************************************)
Callers == 1..NumCallers

Begin(c, q, user_agent) ==
    /\ pc[c] = "idle"
    /\ LET pre == query(cache, q, user_agent)
       IN /\ pc' = [pc EXCEPT ![c] = IF pre.done THEN "done" ELSE "waiting"]
          /\ inflight' = [inflight EXCEPT ![c] = [q |-> q, req |-> pre.req, outcome |-> pre.outcome]]
          /\ cache' = pre.cache
    /\ UNCHANGED <<gazetteer_source, base_url, username, ctor, seqVars, fmtVars, geoVars, pureVars>>

Reply(c) ==
    /\ pc[c] = "waiting"
    /\ \E r \in Responses(inflight[c].req[1]) :
          LET fin == query_reply(cache, inflight[c].q, inflight[c].req[1], r)
          IN /\ cache' = fin.cache
             /\ inflight' = [inflight EXCEPT ![c].outcome = fin.outcome]
    /\ pc' = [pc EXCEPT ![c] = "done"]
    /\ UNCHANGED <<gazetteer_source, base_url, username, ctor, seqVars, fmtVars, geoVars, pureVars>>

NextConc ==
    \E c \in Callers :
        \/ \E q \in Queries, ua \in UserAgents : Begin(c, q, ua)
        \/ Reply(c)

SpecConc == Init /\ [][NextConc]_vars

\* C9: when lookups for the same query string run concurrently and the
\* string is not cached, exactly one network request for it is outstanding;
\* the other callers wait for that request.
C9_SingleFlight ==
    \A c1, c2 \in Callers :
        (/\ pc[c1] = "waiting" /\ pc[c2] = "waiting"
         /\ inflight[c1].q = inflight[c2].q)
            => c1 = c2

(***************************************************************************)
(* A direct call of format_geonames_response (gazetteer.py:126-142) on a   *)
(* list of GeoNames records; every key of a record may be missing, and the *)
(* admin region may be the empty string.                                   *)
(***************************************************************************)
GeoNameValues ==
    [name |-> {"Rome"}, adminName1 |-> {"", "Lazio"}, countryName |-> {"Italy"},
     lat |-> {"41.89"}, lng |-> {"12.48"}]
GeoNameRecords ==
    UNION {{m \in [K -> UNION {GeoNameValues[k] : k \in K}] :
                \A k \in K : m[k] \in GeoNameValues[k]} :
           K \in {{"lat", "lng"} \cup O : O \in SUBSET {"name", "adminName1", "countryName"}}}

InitFmt ==
    /\ GazetteerInit
    /\ last = NoCall /\ prev = NoCall /\ calls = 0 /\ succeeded = {}
    /\ ConcIdle
    /\ response \in SeqsUpTo(GeoNameRecords, MaxRecords)
    /\ formatted = NotCalled
    /\ GeoIdle
    /\ PureIdle

Format ==
    /\ formatted = NotCalled
    /\ formatted' = PyList(format_geonames_response(response))
    /\ UNCHANGED <<gazVars, seqVars, concVars, geoVars, pureVars, response>>

NextFmt == Format

SpecFmt == InitFmt /\ [][NextFmt]_vars

\* C7: format_geonames_response returns one record per input record, in the
\* same order, with exactly the keys name, lat, lon, display_name (lon taken
\* from lng), where display_name is the ', '-join of only the non-empty
\* values among name, adminName1 and countryName.
C7_FormatGeonames ==
    formatted # NotCalled =>
        /\ Len(formatted.v) = Len(response)
        /\ \A i \in 1..Len(response) :
              /\ DOMAIN formatted.v[i] = {"name", "lat", "lon", "display_name"}
              /\ formatted.v[i] = CandidateShape(response[i])

(***************************************************************************)
(* The pipeline, GeoLlama.geoparse (main.py:52-119).  The two language     *)
(* models are the environment.  An answer of a model is given by what      *)
(* Model.get_output (model.py:99-123) makes of it: the generation fails,   *)
(* or the text is turned (by json.loads or by fix_json) into a value, or   *)
(* the text is beyond repair and fix_json raises.                          *)
(***************************************************************************)
PyInt(s) == [t |-> "int", v |-> s]
PyFloat(n) == [t |-> "float", v |-> n]
PyBool(b) == [t |-> "bool", v |-> b]

Texts == {PyStr("Paris, Rome"), PyInt("42"), PyNone}
ToponymPool == {"Paris", "Rome", "Oslo"}

\* coordinates are floats, counted in units of 0.0001 degree; the difference
\* of two floats this close is exact, and 0.001 is 10 units
Tolerance == 10
Abs(n) == IF n < 0 THEN -n ELSE n

\* float(s) of the coordinate strings the candidates hold
float(s) ==
    CASE s = "48.85" -> 488500
      [] s = "2.35" -> 23500
      [] s = "33.66" -> 336600
      [] s = "-95.55" -> -955500
      [] s = "41.89" -> 418900
      [] s = "12.48" -> 124800
      [] s = "40" -> 400000
      [] s = "22" -> 220000
      [] s = "0.0001" -> 1
      [] s = "0.001" -> 10
      [] s = "0.01" -> 100

(***************************************************************************)
(* str methods the repair code uses.                                       *)
(***************************************************************************)
\* the 1-based position of the first occurrence of sep in s, 0 when none
Find(s, sep) ==
    LET P == {i \in 1..(Len(s) - Len(sep) + 1) : SubSeq(s, i, i + Len(sep) - 1) = sep}
    IN IF P = {} THEN 0 ELSE CHOOSE i \in P : \A j \in P : i <= j

\* s.split(sep)
RECURSIVE split(_, _)
split(s, sep) ==
    LET i == Find(s, sep)
    IN IF i = 0 THEN <<s>>
       ELSE <<SubSeq(s, 1, i - 1)>> \o split(SubSeq(s, i + Len(sep), Len(s)), sep)

\* the character of s at position i, "" outside s
At(s, i) == IF i >= 1 /\ i <= Len(s) THEN SubSeq(s, i, i) ELSE ""

\* the strings pieces[lo], ..., pieces[hi] put together
RECURSIVE Concat(_, _, _)
Concat(pieces, lo, hi) ==
    IF lo > hi THEN ""
    ELSE IF lo = hi THEN pieces[lo]
    ELSE Concat(pieces, lo, (lo + hi) \div 2) \o Concat(pieces, (lo + hi) \div 2 + 1, hi)

\* of the positions P where old occurs, those a scan from the left takes:
\* an occurrence that overlaps a taken one is passed over
RECURSIVE Taken(_, _, _)
Taken(P, n, from) ==
    LET Q == {i \in P : i >= from}
    IN IF Q = {} THEN {}
       ELSE LET i == CHOOSE j \in Q : \A k \in Q : j <= k
            IN {i} \cup Taken(P, n, i + n)

\* s.replace(old, new) for an old that is not empty
replace(s, old, new) ==
    LET n == Len(old)
        T == Taken({i \in 1..(Len(s) - n + 1) : SubSeq(s, i, i + n - 1) = old}, n, 1)
    IN Concat([i \in 1..Len(s) |->
                  IF i \in T THEN new
                  ELSE IF \E t \in T : t < i /\ i < t + n THEN ""
                  ELSE At(s, i)], 1, Len(s))

\* c.isalpha(), c.isnumeric() on one character
Letters == DOMAIN UpperToLower \cup {UpperToLower[u] : u \in DOMAIN UpperToLower}
isalpha(c) == c \in Letters
isnumeric(c) == c \in {"0", "1", "2", "3", "4", "5", "6", "7", "8", "9"}

\* s[:-i]: the slice ends at index -i, and -0 is index 0
SliceToMinus(s, i) == IF i = 0 THEN "" ELSE SubSeq(s, 1, Len(s) - i)

(***************************************************************************)
(* Numerals.  A coordinate is written with at most four decimals and its   *)
(* value is counted in units of 0.0001.                                    *)
(***************************************************************************)
\* digits, or digits.digits
IsDecimal(w) ==
    /\ w # ""
    /\ \A k \in 1..Len(w) :
          \/ isnumeric(At(w, k))
          \/ At(w, k) = "." /\ isnumeric(At(w, k - 1)) /\ isnumeric(At(w, k + 1))
    /\ Cardinality({k \in 1..Len(w) : At(w, k) = "."}) <= 1

\* a decimal with or without a minus sign
IsNumeral(s) == IsDecimal(s) \/ (At(s, 1) = "-" /\ IsDecimal(SubSeq(s, 2, Len(s))))

\* a numeral of several digits that starts with 0: no JSON number and no
\* Python integer unless it is all zeros
LeadingZero(s) ==
    LET body == IF At(s, 1) = "-" THEN SubSeq(s, 2, Len(s)) ELSE s
    IN At(body, 1) = "0" /\ isnumeric(At(body, 2))

DigitValue(c) ==
    CASE c = "0" -> 0 [] c = "1" -> 1 [] c = "2" -> 2 [] c = "3" -> 3 [] c = "4" -> 4
      [] c = "5" -> 5 [] c = "6" -> 6 [] c = "7" -> 7 [] c = "8" -> 8 [] c = "9" -> 9

\* int(s) of a string of digits, 0 for the empty one
RECURSIVE Digits(_)
Digits(s) ==
    IF s = "" THEN 0
    ELSE 10 * Digits(SubSeq(s, 1, Len(s) - 1)) + DigitValue(At(s, Len(s)))

\* the value of a numeral
NumberValue(s) ==
    LET neg == At(s, 1) = "-"
        body == IF neg THEN SubSeq(s, 2, Len(s)) ELSE s
        dot == Find(body, ".")
        whole == IF dot = 0 THEN body ELSE SubSeq(body, 1, dot - 1)
        frac == IF dot = 0 THEN "" ELSE SubSeq(body, dot + 1, Len(body))
        n == Digits(whole) * 10000 + Digits(SubSeq(frac \o "0000", 1, 4))
    IN IF neg THEN -n ELSE n

\* the schema of a disambiguation answer (model.py:191)
expected_keys == <<"name", "latitude", "longitude", "RAG_estimated">>

\* list(set(items)): the elements of S in an order the hashing picks
Orderings(S) ==
    {l \in [1..Cardinality(S) -> S] : \A i, j \in 1..Cardinality(S) : l[i] = l[j] => i = j}

(***************************************************************************)
(* The answers of the extraction model.  The model is asked for a JSON     *)
(* object {"toponyms": [...]}; its answer is such an object, written with  *)
(* or without blanks after the separators and with double or single        *)
(* quotes, cut off after any number of characters (the generation stops at *)
(* max_new_tokens, model.py:113), or a text with no list in it.            *)
(***************************************************************************)
ToponymLists == SeqsUpTo(ToponymPool, MaxToponyms)
Styles == {"spaced", "compact"}
Quotes == {"\"", "'"}

Quoted(items) == [k \in 1..Len(items) |-> "\"" \o items[k] \o "\""]

\* json.dumps({"toponyms": items}) in the two layouts
Render(items, style) ==
    IF style = "spaced"
    THEN "{\"toponyms\": [" \o join(", ", Quoted(items)) \o "]}"
    ELSE "{\"toponyms\":[" \o join(",", Quoted(items)) \o "]}"

NoList == "no places"

TopoResponses ==
    {NoList} \cup
    UNION {{replace(SubSeq(Render(l, st), 1, n), "\"", q) :
                n \in 0..Len(Render(l, st)), q \in Quotes} :
           l \in ToponymLists, st \in Styles}

\* an answer: the generation fails, or it produces the text response
TopoAnswers ==
    {[kind |-> "fails", response |-> ""]}
        \cup {[kind |-> "text", response |-> s] : s \in TopoResponses}

(***************************************************************************)
(* The answers of the disambiguation model.  The model is asked for a JSON *)
(* object with the keys name, latitude, longitude and RAG_estimated        *)
(* (model.py:191); a document gives the text written for each key it has.  *)
(***************************************************************************)
NameTexts == {"\"Paris\"", "\"Rio de Janeiro\"", "\"Atlantis\""}
LatitudeTexts == {"48.8505", "48.86", "north", "null"}
LongitudeTexts == {"2.35"}
FlagTexts == {"true", "True", "maybe"}

FullDocs ==
    [name : NameTexts, latitude : LatitudeTexts, longitude : LongitudeTexts,
     RAG_estimated : FlagTexts]
Docs ==
    {[k \in K |-> d[k]] : d \in FullDocs,
                          K \in SUBSET {"name", "latitude", "longitude", "RAG_estimated"}}

RECURSIVE KeysFrom(_, _)
KeysFrom(doc, k) ==
    IF k > Len(expected_keys) THEN <<>>
    ELSE (IF expected_keys[k] \in DOMAIN doc THEN <<expected_keys[k]>> ELSE <<>>)
            \o KeysFrom(doc, k + 1)
PresentKeys(doc) == KeysFrom(doc, 1)

\* the document as the model writes it, in the two layouts
RenderRecord(doc, style) ==
    LET keys == PresentKeys(doc)
        colon == IF style = "spaced" THEN ": " ELSE ":"
        comma == IF style = "spaced" THEN ", " ELSE ","
    IN "{" \o join(comma, [k \in 1..Len(keys) |->
                              "\"" \o keys[k] \o "\"" \o colon \o doc[keys[k]]]) \o "}"

\* the value a JSON text stands for; a text that is no JSON value has none
IsJsonValue(v) ==
    \/ Len(v) >= 2 /\ At(v, 1) = "\"" /\ At(v, Len(v)) = "\""
          /\ Find(SubSeq(v, 2, Len(v) - 1), "\"") = 0
    \/ IsNumeral(v) /\ ~LeadingZero(v)
    \/ v \in {"null", "true", "false"}

JsonValue(v) ==
    CASE At(v, 1) = "\"" -> PyStr(SubSeq(v, 2, Len(v) - 1))
      [] v = "null" -> PyNone
      [] v = "true" -> PyBool(TRUE)
      [] v = "false" -> PyBool(FALSE)
      [] Find(v, ".") = 0 -> PyInt(NumberValue(v))
      [] OTHER -> PyFloat(NumberValue(v))

\* a record holds its name as a string and its flag as a boolean, and its
\* coordinates as Python values
FieldOf(key, x) == IF key \in {"name", "RAG_estimated"} THEN x.v ELSE x

\* the texts that are JSON documents, each with its document
JsonTexts ==
    {<<RenderRecord(doc, st), doc>> :
        doc \in {d \in Docs : \A k \in DOMAIN d : IsJsonValue(d[k])}, st \in Styles}

\* json.loads on the texts of the two models: a text is a JSON document
\* exactly when it is a complete object in double quotes whose values are
\* JSON values
json_loads(str) ==
    IF \E l \in ToponymLists, st \in Styles : Render(l, st) = str
    THEN LET l == CHOOSE l \in ToponymLists : \E st \in Styles : Render(l, st) = str
         IN Ret(PyDict([toponyms |-> PyList(l)]))
    ELSE IF \E jt \in JsonTexts : jt[1] = str
    THEN LET doc == (CHOOSE jt \in JsonTexts : jt[1] = str)[2]
         IN Ret(PyDict([k \in DOMAIN doc |-> FieldOf(k, JsonValue(doc[k]))]))
    ELSE Raise("JSONDecodeError")

\* what the model answers in a run of the pipeline: a complete document
\* with a name that is or is not in the text and a latitude near the
\* candidate, away from it or null, or a text cut after the latitude key
RagDocs ==
    [name : {"\"Paris\"", "\"Atlantis\""}, latitude : {"48.8505", "48.86", "null"},
     longitude : {"2.35"}, RAG_estimated : {"true"}]
CutResponse == "{\"name\": \"Paris\", \"latitude\": "
RagResponses == {CutResponse} \cup {RenderRecord(d, "spaced") : d \in RagDocs}

\* an answer: the generation fails, or it produces the text response
RagAnswers ==
    {[kind |-> "fails", response |-> ""]}
        \cup {[kind |-> "text", response |-> s] : s \in RagResponses}

\* `s in t` on two strings
IsSubstring(s, t) == \E i \in 0..(Len(t) - Len(s)) : SubSeq(t, i + 1, i + Len(s)) = s

\* validate_toponyms keeping only the first occurrence of a toponym
validate_toponyms_Unique(tops, txt) ==
    LET kept == {k \in 1..Len(tops) :
                    IsSubstring(tops[k], txt) /\ \A j \in 1..(k - 1) : tops[j] # tops[k]}
    IN [i \in 1..Cardinality(kept) |->
            tops[CHOOSE k \in kept : Cardinality({j \in kept : j < k}) = i - 1]]

\* TopoModel.validate_toponyms (model.py:384-397)
validate_toponyms(tops, txt) == SelectSeq(tops, LAMBDA tp : IsSubstring(tp, txt))

\* the loop of model.py:374-376 from position i on: the value i has when the
\* loop is left, by the break or at the end of a non-empty list_part
RECURSIVE TrailingIndex(_, _)
TrailingIndex(list_part, i) ==
    LET item == SubSeq(list_part, Len(list_part) - i, Len(list_part) - i)
    IN IF isalpha(item) \/ isnumeric(item) THEN i
       ELSE IF i = Len(list_part) - 1 THEN i
       ELSE TrailingIndex(list_part, i + 1)

\* TopoModel.fix_json (model.py:362-382): the outcomes it can have, one for
\* each order list(set(items)) can come in
TopoModel_fix_json(json_str) ==
    LET parts == split(json_str, "[\"")
    IN IF Len(parts) < 2 THEN {Raise("IndexError")}
       ELSE IF parts[2] = "" THEN {Raise("UnboundLocalError")}
       ELSE LET list_part == SliceToMinus(parts[2], TrailingIndex(parts[2], 0))
                items == split(list_part, "\", \"")
                unique_items == {items[k] : k \in 1..Len(items)}
            IN {Ret(PyDict([toponyms |-> PyList(l)])) :
                    l \in Orderings({t \in unique_items : Len(t) # 0})}

\* TopoModel.clean_response (model.py:343-359): the outcomes it can have;
\* txt is the validation data, a Python value
TopoModel_clean_response(resp, txt) ==
    LET replaced == replace(resp, "'", "\"")
        outs == IF json_loads(replaced).kind = "return" THEN {json_loads(replaced)}
                ELSE TopoModel_fix_json(replaced)
    IN {IF o.kind = "raise" THEN o
        ELSE IF txt.t # "str" /\ Len(o.value.v.toponyms.v) > 0 THEN Raise("TypeError")
        ELSE IF txt.t # "str" THEN Ret(PyDict([toponyms |-> PyList(<<>>)]))
        ELSE Ret(PyDict([toponyms |->
                            PyList(validate_toponyms(o.value.v.toponyms.v, txt.v))])) :
        o \in outs}

\* float(json_dict[key]) (model.py:307-308): the exception it raises, "-" if none
FloatOfKey(json_dict, key) ==
    IF key \notin DOMAIN json_dict THEN "KeyError"
    ELSE IF json_dict[key].t \notin {"float", "int", "bool"} THEN "TypeError"
    ELSE "-"

\* float(x) of a float, an int or a bool: float(False) is 0.0, float(True) 1.0
FloatValue(x) == IF x.t = "bool" THEN (IF x.v THEN 10000 ELSE 0) ELSE x.v

\* the loop of validate_json accepting a candidate close on either axis
RECURSIVE validate_json_loop_EitherAxis(_, _, _, _)
validate_json_loop_EitherAxis(json_dict, ms, k, rag) ==
    IF k > Len(ms) THEN Ret(PyDict(DictUpdate(json_dict, "RAG_estimated", rag)))
    ELSE IF FloatOfKey(json_dict, "latitude") # "-"
    THEN Raise(FloatOfKey(json_dict, "latitude"))
    ELSE IF FloatOfKey(json_dict, "longitude") # "-"
    THEN Raise(FloatOfKey(json_dict, "longitude"))
    ELSE LET d_lat == Abs(float(ms[k].lat) - FloatValue(json_dict["latitude"]))
             d_lon == Abs(float(ms[k].lon) - FloatValue(json_dict["longitude"]))
         IN validate_json_loop_EitherAxis(json_dict, ms, k + 1,
                IF d_lat <= Tolerance \/ d_lon <= Tolerance THEN TRUE ELSE rag)

\* the loop of validate_json letting each candidate overwrite the flag
RECURSIVE validate_json_loop_LastCandidate(_, _, _, _)
validate_json_loop_LastCandidate(json_dict, ms, k, rag) ==
    IF k > Len(ms) THEN Ret(PyDict(DictUpdate(json_dict, "RAG_estimated", rag)))
    ELSE IF FloatOfKey(json_dict, "latitude") # "-"
    THEN Raise(FloatOfKey(json_dict, "latitude"))
    ELSE IF FloatOfKey(json_dict, "longitude") # "-"
    THEN Raise(FloatOfKey(json_dict, "longitude"))
    ELSE LET d_lat == Abs(float(ms[k].lat) - FloatValue(json_dict["latitude"]))
             d_lon == Abs(float(ms[k].lon) - FloatValue(json_dict["longitude"]))
         IN validate_json_loop_LastCandidate(json_dict, ms, k + 1,
                d_lat <= Tolerance /\ d_lon <= Tolerance)

\* the loop of validate_json (model.py:305-312) from the k-th candidate on
RECURSIVE validate_json_loop(_, _, _, _)
validate_json_loop(json_dict, ms, k, rag) ==
    IF k > Len(ms) THEN Ret(PyDict(DictUpdate(json_dict, "RAG_estimated", rag)))
    ELSE IF FloatOfKey(json_dict, "latitude") # "-"
    THEN Raise(FloatOfKey(json_dict, "latitude"))
    ELSE IF FloatOfKey(json_dict, "longitude") # "-"
    THEN Raise(FloatOfKey(json_dict, "longitude"))
    ELSE LET d_lat == Abs(float(ms[k].lat) - FloatValue(json_dict["latitude"]))
             d_lon == Abs(float(ms[k].lon) - FloatValue(json_dict["longitude"]))
         IN validate_json_loop(json_dict, ms, k + 1,
                IF d_lat <= Tolerance /\ d_lon <= Tolerance THEN TRUE ELSE rag)

\* validate_json reading the coordinates of the record before it looks at matches
validate_json_CoordinatesFirst(json_dict, ms) ==
    IF FloatOfKey(json_dict, "latitude") # "-" THEN Raise(FloatOfKey(json_dict, "latitude"))
    ELSE IF FloatOfKey(json_dict, "longitude") # "-"
    THEN Raise(FloatOfKey(json_dict, "longitude"))
    ELSE validate_json_loop(json_dict, ms, 1, FALSE)

\* RAGModel.validate_json (model.py:291-312)
validate_json(json_dict, ms) ==
    IF Len(ms) = 0 THEN Ret(PyDict(DictUpdate(json_dict, "RAG_estimated", FALSE)))
    ELSE validate_json_loop(json_dict, ms, 1, FALSE)

(***************************************************************************)
(* The repair of a disambiguation answer (model.py:181-289): the answer is *)
(* cut into tokens, the keys it lacks are inserted, and the values are read *)
(* between the keys.                                                       *)
(***************************************************************************)
\* x in l
In(x, l) == \E k \in 1..Len(l) : l[k] = x

\* l.index(x), counted from 0, for an x in l
index(l, x) == (CHOOSE k \in 1..Len(l) : l[k] = x /\ \A j \in 1..(k - 1) : l[j] # x) - 1

\* l[a:b] for indices from 0 that are not negative
Slice(l, a, b) == IF a >= b \/ a >= Len(l) THEN SubSeq(l, 1, 0)
                  ELSE SubSeq(l, a + 1, IF b > Len(l) THEN Len(l) ELSE b)

\* l.insert(i, x): an index past the end appends
insert(l, i, x) ==
    LET k == IF i > Len(l) THEN Len(l) ELSE i
    IN SubSeq(l, 1, k) \o <<x>> \o SubSeq(l, k + 1, Len(l))

\* \w of the pattern (model.py:250-258): letters, accented ones too, digits
\* and the underscore
Accented == {"É", "é", "è"}
IsWordChar(c) == isalpha(c) \/ isnumeric(c) \/ c = "_" \/ c \in Accented
Joiners == {"-", ".", "'"}

\* where the longest run of word characters (of digits) from i ends: the
\* position after it
RECURSIVE WordRun(_, _)
WordRun(s, i) == IF IsWordChar(At(s, i)) THEN WordRun(s, i + 1) ELSE i

RECURSIVE DigitRun(_, _)
DigitRun(s, i) == IF isnumeric(At(s, i)) THEN DigitRun(s, i + 1) ELSE i

\* (?:[-.'][\w]+)* from i
RECURSIVE WordTail(_, _)
WordTail(s, i) ==
    IF At(s, i) \in Joiners /\ IsWordChar(At(s, i + 1))
    THEN WordTail(s, WordRun(s, i + 1))
    ELSE i

\* the first alternative at i, \b[\w]+(?:[-.'][\w]+)*: the position after the
\* match, 0 when it does not match
MatchWord(s, i) ==
    IF IsWordChar(At(s, i)) /\ ~IsWordChar(At(s, i - 1))
    THEN WordTail(s, WordRun(s, i))
    ELSE 0

\* the second alternative at i, -?\d+(?:\.\d+)?
MatchNumber(s, i) ==
    LET j == IF At(s, i) = "-" THEN i + 1 ELSE i
        k == DigitRun(s, j)
    IN IF k = j THEN 0
       ELSE IF At(s, k) = "." /\ isnumeric(At(s, k + 1)) THEN DigitRun(s, k + 1)
       ELSE k

\* the pattern matches at i
Matches(s, i) ==
    \/ IsWordChar(At(s, i)) /\ ~IsWordChar(At(s, i - 1))
    \/ MatchNumber(s, i) # 0

\* re.findall(words_pattern, s) from position from on: the scan goes to the
\* first position where the pattern matches, takes the match of the first
\* alternative that has one, and goes on after it
RECURSIVE findall(_, _)
findall(s, from) ==
    LET Q == {i \in from..Len(s) : Matches(s, i)}
    IN IF Q = {} THEN <<>>
       ELSE LET i == CHOOSE j \in Q : \A k \in Q : j <= k
                e == IF MatchWord(s, i) # 0 THEN MatchWord(s, i) ELSE MatchNumber(s, i)
            IN <<SubSeq(s, i, e - 1)>> \o findall(s, e)

\* RAGModel.extract_words (model.py:237-263)
extract_words(json_str) == findall(json_str, 1)

\* add_missing_keys that inserts every key, missing or not
RECURSIVE add_missing_keys_loop_Always(_, _, _, _)
add_missing_keys_loop_Always(words, keys, k, i) ==
    IF k > Len(keys) THEN words
    ELSE add_missing_keys_loop_Always(insert(insert(words, i, keys[k]), i + 1, "False"),
                                      keys, k + 1, i + 4)

\* the loop of add_missing_keys (model.py:226-233) from the k-th key on, i
\* being the running index
RECURSIVE add_missing_keys_loop(_, _, _, _)
add_missing_keys_loop(words, keys, k, i) ==
    IF k > Len(keys) THEN words
    ELSE IF ~In(keys[k], words)
    THEN add_missing_keys_loop(insert(insert(words, i, keys[k]), i + 1, "False"),
                               keys, k + 1, i + 4)
    ELSE add_missing_keys_loop(words, keys, k + 1, i + 2)

\* RAGModel.add_missing_keys (model.py:214-234)
add_missing_keys(words, keys) == add_missing_keys_loop(words, keys, 1, 0)

\* get_word that leaves the stop word in the span
get_word_StopIncluded(words, start_word, stop_word) ==
    IF Truthy(start_word) /\ ~In(start_word.v, words) THEN Raise("ValueError")
    ELSE IF Truthy(stop_word) /\ ~In(stop_word.v, words) THEN Raise("ValueError")
    ELSE LET start_idx == IF Truthy(start_word) THEN index(words, start_word.v) ELSE -1
             stop_idx == IF Truthy(stop_word) THEN index(words, stop_word.v) + 1
                         ELSE Len(words)
         IN Ret(PyStr(join(" ", Slice(words, start_idx + 1, stop_idx))))

\* RAGModel.get_word (model.py:265-289); start_word and stop_word are a str
\* or None
get_word(words, start_word, stop_word) ==
    IF Truthy(start_word) /\ ~In(start_word.v, words) THEN Raise("ValueError")
    ELSE IF Truthy(stop_word) /\ ~In(stop_word.v, words) THEN Raise("ValueError")
    ELSE LET start_idx == IF Truthy(start_word) THEN index(words, start_word.v) ELSE -1
             stop_idx == IF Truthy(stop_word) THEN index(words, stop_word.v)
                         ELSE Len(words)
         IN Ret(PyStr(join(" ", Slice(words, start_idx + 1, stop_idx))))

\* s.capitalize()
upper(c) ==
    IF \E u \in DOMAIN UpperToLower : UpperToLower[u] = c
    THEN CHOOSE u \in DOMAIN UpperToLower : UpperToLower[u] = c
    ELSE c
capitalize(s) == IF s = "" THEN "" ELSE upper(At(s, 1)) \o lower(SubSeq(s, 2, Len(s)))

\* a name of Python: a letter or underscore, then word characters
IsIdentifier(s) ==
    /\ s # "" /\ ~isnumeric(At(s, 1))
    /\ \A k \in 1..Len(s) : IsWordChar(At(s, k))

\* ast.literal_eval on a span of tokens joined by blanks: a numeral, True,
\* False or None is a value, a bare name is no literal (ValueError), anything
\* else is no expression (SyntaxError)
literal_eval(s) ==
    CASE s = "True" -> Ret(PyBool(TRUE))
      [] s = "False" -> Ret(PyBool(FALSE))
      [] s = "None" -> Ret(PyNone)
      [] IsNumeral(s) /\ Find(s, ".") # 0 -> Ret(PyFloat(NumberValue(s)))
      [] IsNumeral(s) /\ Find(s, ".") = 0 ->
            IF LeadingZero(s) /\ NumberValue(s) # 0 THEN Raise("SyntaxError")
            ELSE Ret(PyInt(NumberValue(s)))
      [] IsIdentifier(s) /\ s \notin {"True", "False", "None"} -> Raise("ValueError")
      [] OTHER -> Raise("SyntaxError")

\* [w for w in words if w.lower() in ['true', 'false']]
RECURSIVE Booleans(_)
Booleans(words) ==
    IF Len(words) = 0 THEN <<>>
    ELSE (IF lower(Head(words)) \in {"true", "false"} THEN <<Head(words)>> ELSE <<>>)
            \o Booleans(Tail(words))

\* RAGModel.fix_json (model.py:181-212)
RAGModel_fix_json(json_str) ==
    LET found == extract_words(json_str)
        words == IF \E k \in 1..Len(expected_keys) : ~In(expected_keys[k], found)
                 THEN add_missing_keys(found, expected_keys)
                 ELSE found
        place_name == get_word(words, PyStr("name"), PyStr("latitude"))
        latitude == get_word(words, PyStr("latitude"), PyStr("longitude"))
        longitude == get_word(words, PyStr("longitude"), PyStr("RAG_estimated"))
        bools == Booleans(words)
    IN IF literal_eval(latitude.value.v).kind = "raise" THEN literal_eval(latitude.value.v)
       ELSE IF literal_eval(longitude.value.v).kind = "raise"
       THEN literal_eval(longitude.value.v)
       ELSE IF Len(bools) = 0 THEN Raise("IndexError")
       ELSE Ret(PyDict([name |-> place_name.value.v,
                        latitude |-> literal_eval(latitude.value.v).value,
                        longitude |-> literal_eval(longitude.value.v).value,
                        RAG_estimated |-> literal_eval(capitalize(bools[1])).value.v]))

\* the parse of clean_response handing every response to fix_json
RAGModel_parse_AlwaysFix(resp) ==
    LET cleaned == replace(replace(replace(resp, "'", "\""), "True", "true"),
                           "False", "false")
    IN [json_out |-> RAGModel_fix_json(cleaned), called |-> <<"json.loads", "fix_json">>]

\* the two-stage parse of RAGModel.clean_response (model.py:169-174): what
\* json_out is, or the exception of fix_json, and the parsers called
RAGModel_parse(resp) ==
    LET cleaned == replace(replace(replace(resp, "'", "\""), "True", "true"),
                           "False", "false")
        parsed == json_loads(cleaned)
    IN IF parsed.kind = "return"
       THEN [json_out |-> parsed, called |-> <<"json.loads">>]
       ELSE [json_out |-> RAGModel_fix_json(cleaned),
             called |-> <<"json.loads", "fix_json">>]

\* the end of RAGModel.clean_response (model.py:176-179); validation is None
\* or the list of matches
RAGModel_validated(json_out, validation) ==
    IF json_out.kind = "raise" THEN json_out
    ELSE IF validation.t # "None" THEN validate_json(json_out.value.v, validation.v)
    ELSE json_out

\* RAGModel.clean_response (model.py:159-179)
RAGModel_clean_response(resp, validation) ==
    RAGModel_validated(RAGModel_parse(resp).json_out, validation)

\* the parse of each answer the model gives in a run of the pipeline
ParsedAnswers == {[response |-> s, run |-> RAGModel_parse(s)] : s \in RagResponses}

\* Model.get_output (model.py:99-123) of the two models
TopoModel_get_output(a, validation_data) ==
    IF a.kind = "fails" THEN {Raise("RuntimeError")}
    ELSE TopoModel_clean_response(a.response, validation_data)

RAGModel_get_output(a, validation_data) ==
    IF a.kind = "fails" THEN Raise("RuntimeError")
    ELSE RAGModel_validated(
             (CHOOSE p \in ParsedAnswers : p.response = a.response).run.json_out,
             PyList(validation_data))

\* GeoLlama.get_matches (main.py:92-103) from what gazetteer.query did
CandidateKeys == {"name", "lat", "lon", "display_name"}
get_matches(o) ==
    IF o.kind = "raise" THEN o
    ELSE IF o.value.t = "None" THEN Raise("TypeError")
    ELSE IF o.value.t = "dict"
    THEN IF DOMAIN o.value.v = {} THEN Ret(PyList(<<>>)) ELSE Raise("TypeError")
    ELSE IF \E i \in 1..Len(o.value.v) : ~(CandidateKeys \subseteq DOMAIN o.value.v[i])
    THEN Raise("KeyError")
    ELSE Ret(PyList([i \in 1..Len(o.value.v) |->
                        [name |-> o.value.v[i].name, lat |-> o.value.v[i].lat,
                         lon |-> o.value.v[i].lon, address |-> o.value.v[i].display_name]]))

\* the user agent get_matches builds (main.py:93)
NowUserAgent == PyStr("GeoLLama_req_<now>")

\* the type check at the head of geoparse without its test (main.py:64)
geoparse_check_NoTypeCheck(t) == Ret(PyNone)

\* the type check at the head of geoparse (main.py:64-65)
geoparse_check(t) == IF t.t # "str" THEN Raise("TypeError") ELSE Ret(PyNone)

Event(ev, tp, ms) == [ev |-> ev, text |-> text, toponym |-> tp, matches |-> ms]

\* GeoLlama.__init__ (main.py:29-50) always names the source of its Gazetteer
InitGeo ==
    /\ \E s \in {"nominatim", "geonames"}, u \in UsernameArgs :
          LET args == [gazetteer_source |-> s, geonames_username |-> u]
          IN /\ ctor = args
             /\ gazetteer_source = InitSource(args)
             /\ base_url = InitBaseUrl(args)
             /\ username = InitUsername(args)
             /\ cache = EmptyDict
    /\ last = NoCall /\ prev = NoCall /\ calls = 0 /\ succeeded = {}
    /\ ConcIdle
    /\ FmtIdle
    /\ GeoIdle
    /\ PureIdle

GeoFrame ==
    UNCHANGED <<gazetteer_source, base_url, username, ctor, seqVars, concVars, fmtVars, pureVars>>

\* main.py:63-65
Geoparse(t) ==
    /\ gp_pc = "idle"
    /\ text' = t
    /\ IF geoparse_check(t).kind = "raise"
       THEN result' = geoparse_check(t) /\ gp_pc' = "done"
       ELSE result' = result /\ gp_pc' = "toponyms"
    /\ UNCHANGED <<cache, toponyms, idx, matches, output, events, answers>>
    /\ GeoFrame

\* main.py:67-68, get_toponyms (main.py:78-90)
GetToponyms ==
    /\ gp_pc = "toponyms"
    /\ \E a \in TopoAnswers : \E o \in TopoModel_get_output(a, text) :
          IF o.kind = "raise"
          THEN result' = o /\ gp_pc' = "done" /\ UNCHANGED <<toponyms, idx>>
          ELSE /\ toponyms' = o.value.v.toponyms.v /\ idx' = 1 /\ gp_pc' = "matches"
               /\ UNCHANGED result
    /\ events' = Append(events, Event("toponyms", "", <<>>))
    /\ UNCHANGED <<cache, text, matches, output, answers>>
    /\ GeoFrame

\* get_matches keeping the candidates of the toponym before
Matched_StaleMatches(fin) ==
    /\ cache' = fin.cache
    /\ IF get_matches(fin.outcome).kind = "raise"
       THEN /\ result' = get_matches(fin.outcome) /\ gp_pc' = "done"
            /\ events' = Append(events, Event("matches", toponyms[idx], <<>>))
       ELSE /\ gp_pc' = "location"
            /\ events' = Append(events, Event("matches", toponyms[idx],
                                              get_matches(fin.outcome).value.v))
            /\ UNCHANGED result
    /\ UNCHANGED <<text, toponyms, idx, output, answers, matches>>
    /\ GeoFrame

\* what get_matches does once gazetteer.query has finished as fin
Matched(fin) ==
    /\ cache' = fin.cache
    /\ IF get_matches(fin.outcome).kind = "raise"
       THEN /\ result' = get_matches(fin.outcome) /\ gp_pc' = "done" /\ UNCHANGED matches
            /\ events' = Append(events, Event("matches", toponyms[idx], <<>>))
       ELSE /\ matches' = get_matches(fin.outcome).value.v /\ gp_pc' = "location"
            /\ events' = Append(events, Event("matches", toponyms[idx],
                                              get_matches(fin.outcome).value.v))
            /\ UNCHANGED result
    /\ UNCHANGED <<text, toponyms, idx, output, answers>>
    /\ GeoFrame

\* main.py:70-71, get_matches (main.py:92-103)
GetMatches ==
    /\ gp_pc = "matches" /\ idx <= Len(toponyms)
    /\ LET pre == query(cache, toponyms[idx], NowUserAgent)
       IN IF pre.done THEN Matched(pre)
          ELSE \E r \in Responses(pre.req[1]) :
                  Matched(query_reply(pre.cache, toponyms[idx], pre.req[1], r))

\* main.py:72-75, get_location (main.py:105-119)
GetLocation ==
    /\ gp_pc = "location"
    /\ \E a \in RagAnswers :
          \E o \in {RAGModel_get_output(a, matches)} :
             /\ answers' = Append(answers, [kind |-> a.kind, response |-> a.response,
                                             outcome |-> o.kind])
             /\ IF o.kind = "raise"
                THEN result' = o /\ gp_pc' = "done" /\ UNCHANGED <<output, idx>>
                ELSE output' = Append(output, o.value.v) /\ idx' = idx + 1
                     /\ gp_pc' = "matches" /\ UNCHANGED result
    /\ events' = Append(events, Event("location", toponyms[idx], matches))
    /\ UNCHANGED <<cache, text, toponyms, matches>>
    /\ GeoFrame

\* main.py:76
Return ==
    /\ gp_pc = "matches" /\ idx > Len(toponyms)
    /\ result' = Ret(PyList(output)) /\ gp_pc' = "done"
    /\ UNCHANGED <<cache, text, toponyms, idx, matches, output, events, answers>>
    /\ GeoFrame

NextGeo ==
    \/ \E t \in Texts : Geoparse(t)
    \/ GetToponyms
    \/ GetMatches
    \/ GetLocation
    \/ Return

SpecGeo == InitGeo /\ [][NextGeo]_vars

\* C10: geoparse called with a text that is not a string raises TypeError
\* immediately: no extraction call, no gazetteer lookup and no
\* disambiguation call has happened when the error is raised.
C10_NonStringRaises ==
    (gp_pc # "idle" /\ text.t # "str")
        => /\ gp_pc = "done" /\ result = Raise("TypeError")
           /\ events = <<>> /\ cache = EmptyDict /\ output = <<>>

\* geoparse(42) has raised TypeError and nothing has been called
C10_Witness ==
    /\ gp_pc = "done" /\ text = PyInt("42")
    /\ result = Raise("TypeError") /\ events = <<>>

(***************************************************************************)
(* Direct calls of the functions of the repair / validation engine         *)
(* (model.py:291-397), one call in a behaviour, on arguments drawn from    *)
(* the sets below.                                                         *)
(***************************************************************************)
\* validate_toponyms: toponyms in and out of the text, one of them a
\* substring that is not a word, and the empty string
ValidatePool == ToponymPool \cup {"ris, R", ""}
PureTexts == {"Paris, Rome", "Rome", ""}

\* fix_json: an answer cut after cut characters, as it is or closed by hand
\* (test_toponym_model.py:70)
Tails == {"", "]}"}

\* validate_json: records of a disambiguation answer, every key optional
JsonValues ==
    [name : {"paris"},
     latitude : {PyFloat(0), PyFloat(488500), PyNone},
     longitude : {PyFloat(0), PyFloat(23500)},
     RAG_estimated : {TRUE, FALSE}]
JsonDicts ==
    {[k \in K |-> d[k]] : d \in JsonValues,
                          K \in SUBSET {"name", "latitude", "longitude", "RAG_estimated"}}
\* candidates as the tests give them (test_rag_model.py:286-302), one on the
\* tolerance, and some close on one axis only
PureCandidates ==
    {[lat |-> "40", lon |-> "22"], [lat |-> "0.0001", lon |-> "0.0001"],
     [lat |-> "0.01", lon |-> "0.01"], [lat |-> "0.001", lon |-> "0.001"],
     [lat |-> "0.0001", lon |-> "0.01"], [lat |-> "0.01", lon |-> "0.0001"],
     [lat |-> "48.85", lon |-> "2.35"]}

\* token lists [key, value, key, value, ...] for every set of keys present,
\* the name being of one token or of three (test_rag_model.py:134-152)
NameTokens == {<<"Paris">>, <<"Rio", "de", "Janeiro">>}
ValueTokens(key, name) ==
    CASE key = "name" -> name
      [] key = "latitude" -> <<"48.85">>
      [] key = "longitude" -> <<"2.34">>
      [] key = "RAG_estimated" -> <<"true">>

RECURSIVE KeyValueTokens(_, _, _)
KeyValueTokens(present, name, k) ==
    IF k > Len(expected_keys) THEN <<>>
    ELSE (IF expected_keys[k] \in present
          THEN <<expected_keys[k]>> \o ValueTokens(expected_keys[k], name)
          ELSE <<>>) \o KeyValueTokens(present, name, k + 1)

KeyValueLists ==
    {KeyValueTokens(present, name, 1) :
        present \in SUBSET {"name", "latitude", "longitude", "RAG_estimated"},
        name \in NameTokens}

\* and any short list of tokens
TokenPool == {"name", "latitude", "longitude", "RAG_estimated", "Paris", "2.34"}
TokenLists == KeyValueLists \cup SeqsUpTo(TokenPool, MaxTokens)
Markers == {PyNone} \cup {PyStr(k) : k \in {"name", "latitude", "longitude", "RAG_estimated"}}

\* the texts the tests cut into tokens (test_rag_model.py:154-240), and any
\* short text of letters, digits, joiners and separators
TestTexts ==
    {"{\"name\":\"Paris\"}", "{\"longitude\":2.34}", "{\"longitude\": -2.34}",
     "{\"name\":\"Champs-Elysees\"}", "{\"name\":\"Élysées\"}", "{'name': 'd'Huez'}",
     "{\"name\":\"129a\"}", "{\"name\":\"Alpe d'Huez\"}"}
Alphabet == {"a", "2", "-", ".", "'", "\"", " "}

RECURSIVE Strings(_, _)
Strings(S, n) ==
    IF n = 0 THEN {""}
    ELSE Strings(S, n - 1) \cup {s \o c : s \in {t \in Strings(S, n - 1) : Len(t) = n - 1}, c \in S}


\* answers handed to fix_json and clean_response in a direct call: a
\* complete answer cut after any number of characters, and for every set of
\* keys left out, with a name of one or three words, a latitude that is or
\* is not a number and a flag that is or is not a boolean, the answer whole,
\* without its closing brace, without blanks and in single quotes
\* (test_rag_model.py:65-132)
PureDocs ==
    {[k \in K |-> d[k]] :
        d \in [name : {"\"Paris\"", "\"Rio de Janeiro\""},
               latitude : {"48.8505", "north", "null"},
               longitude : {"2.35"}, RAG_estimated : {"True", "maybe"}],
        K \in SUBSET {"name", "latitude", "longitude", "RAG_estimated"}}
CompleteDoc ==
    [name |-> "\"Paris\"", latitude |-> "48.8505", longitude |-> "2.35",
     RAG_estimated |-> "True"]
PureResponses ==
    {SubSeq(RenderRecord(CompleteDoc, "spaced"), 1, n) :
        n \in 0..Len(RenderRecord(CompleteDoc, "spaced"))}
    \cup UNION {{RenderRecord(d, "spaced"), RenderRecord(d, "compact"),
                 SubSeq(RenderRecord(d, "spaced"), 1, Len(RenderRecord(d, "spaced")) - 1),
                 replace(RenderRecord(d, "spaced"), "\"", "'")} : d \in PureDocs}
Validations ==
    {PyNone, PyList(<<>>), PyList(<<[lat |-> "48.85", lon |-> "2.35"]>>),
     PyList(<<[lat |-> "0.0001", lon |-> "2.35"]>>)}

InitPure ==
    /\ GazetteerInit /\ ctor = [gazetteer_source |-> Absent, geonames_username |-> PyNone]
    /\ last = NoCall /\ prev = NoCall /\ calls = 0 /\ succeeded = {}
    /\ ConcIdle
    /\ FmtIdle
    /\ GeoIdle
    /\ PureIdle

PureFrame == UNCHANGED <<gazVars, seqVars, concVars, fmtVars, geoVars>>

\* model.py:384-397
ValidateToponyms ==
    /\ fn = "-"
    /\ \E tops \in SeqsUpTo(ValidatePool, MaxNames), txt \in PureTexts :
          /\ inputs' = [toponyms |-> tops, text |-> txt]
          /\ ret' = Ret(PyList(validate_toponyms(tops, txt)))
    /\ fn' = "validate_toponyms"
    /\ PureFrame

\* model.py:362-382
TopoFixJson ==
    /\ fn = "-"
    /\ \E l \in ToponymLists, st \in Styles, tail \in Tails :
          \E n \in 0..Len(Render(l, st)) :
              LET json_str == SubSeq(Render(l, st), 1, n) \o tail
              IN /\ inputs' = [items |-> l, style |-> st, cut |-> n, tail |-> tail,
                               json_str |-> json_str]
                 /\ ret' \in TopoModel_fix_json(json_str)
    /\ fn' = "fix_json"
    /\ PureFrame

\* model.py:343-359
TopoCleanResponse ==
    /\ fn = "-"
    /\ \E resp \in TopoResponses, txt \in PureTexts :
          /\ inputs' = [response |-> resp, text |-> txt]
          /\ ret' \in TopoModel_clean_response(resp, PyStr(txt))
    /\ fn' = "clean_response"
    /\ PureFrame

\* model.py:291-312
ValidateJson ==
    /\ fn = "-"
    /\ \E d \in JsonDicts, ms \in SeqsUpTo(PureCandidates, MaxMatches) :
          /\ inputs' = [json_dict |-> d, matches |-> ms]
          /\ ret' = validate_json(d, ms)
    /\ fn' = "validate_json"
    /\ PureFrame

\* model.py:214-234
AddMissingKeys ==
    /\ fn = "-"
    /\ \E words \in TokenLists :
          /\ inputs' = [words |-> words, expected_keys |-> expected_keys]
          /\ ret' = Ret(PyList(add_missing_keys(words, expected_keys)))
    /\ fn' = "add_missing_keys"
    /\ PureFrame

\* model.py:265-289
GetWord ==
    /\ fn = "-"
    /\ \E words \in TokenLists, start_word \in Markers, stop_word \in Markers :
          /\ inputs' = [words |-> words, start_word |-> start_word, stop_word |-> stop_word]
          /\ ret' = get_word(words, start_word, stop_word)
    /\ fn' = "get_word"
    /\ PureFrame

\* model.py:237-263
ExtractWords ==
    /\ fn = "-"
    /\ \E json_str \in TestTexts \cup Strings(Alphabet, MaxChars) :
          /\ inputs' = [json_str |-> json_str]
          /\ ret' = Ret(PyList(extract_words(json_str)))
    /\ fn' = "extract_words"
    /\ PureFrame

\* model.py:181-212
RagFixJson ==
    /\ fn = "-"
    /\ \E json_str \in PureResponses :
          /\ inputs' = [json_str |-> json_str]
          /\ ret' = RAGModel_fix_json(json_str)
    /\ fn' = "RAGModel.fix_json"
    /\ PureFrame

\* model.py:159-179
RagCleanResponse ==
    /\ fn = "-"
    /\ \E resp \in PureResponses, validation \in Validations :
          \E run \in {RAGModel_parse(resp)} :
             \E o \in {RAGModel_validated(run.json_out, validation)} :
                /\ inputs' = [response |-> resp, validation |-> validation]
                /\ ret' = [kind |-> o.kind, value |-> o.value, exc |-> o.exc,
                           called |-> run.called]
    /\ fn' = "RAGModel.clean_response"
    /\ PureFrame

(***************************************************************************)
(* The pipeline of the demo (main.py:120-199, app.py:63-103): the text is   *)
(* translated when asked, geoparsed, and every location found is marked in *)
(* the text with a tooltip that names it and is put on the map.            *)
(***************************************************************************)
\* the texts handed to the pipeline with the language the detector finds in
\* them and the English text the translation model writes for them
PipelineTexts ==
    {[text |-> "Ik woon in Parijs", language |-> "nl", english |-> "I live in Paris"],
     [text |-> "I live in Paris", language |-> "en", english |-> "I live in Paris"]}

\* Translator.translate(text, out_lang='en') (translator.py:56-88): a text
\* already in the language asked for comes back as it is
Translator_translate(t) ==
    IF t.language = "en"
    THEN [language |-> t.language, translation |-> t.text]
    ELSE [language |-> t.language, translation |-> t.english]

\* the values translation_option is given: the two choices of the demo
\* (app.py:114) and the spelling the loop compares with (main.py:183)
TranslationOptions == {"With Translation", "Without Translation", "With translation"}

\* the locations geoparse returns for these texts
Locations ==
    {[name |-> "Parijs", latitude |-> PyFloat(488505), longitude |-> PyFloat(23500),
      RAG_estimated |-> TRUE],
     [name |-> "Paris", latitude |-> PyFloat(488505), longitude |-> PyFloat(23500),
      RAG_estimated |-> TRUE],
     [name |-> "Paris", latitude |-> PyNone, longitude |-> PyNone,
      RAG_estimated |-> FALSE]}

\* what geoparse does with the processed text: it raises or returns locations
GeoparseOutcomes ==
    {Raise("RuntimeError")} \cup {Ret(PyList(l)) : l \in SeqsUpTo(Locations, MaxLocations)}

\* the answers of Nominatim.geocode(name, language='en', exactly_one=False):
\* None when nothing is found, else the places found, each with its address
\* and its distance d to the coordinates of the location
GeocodeAnswers ==
    {PyNone,
     PyList(<<[address |-> "Paris, France", d |-> 0]>>),
     PyList(<<[address |-> "Paris, Texas, United States", d |-> 7900],
              [address |-> "Paris, France", d |-> 0]>>)}

\* the place of matches[k..] closest to the coordinates, best being the
\* closest so far (main.py:144-149)
RECURSIVE closest(_, _, _)
closest(ms, k, best) ==
    IF k > Len(ms) THEN best
    ELSE closest(ms, k + 1, IF ms[k].d < best.d THEN ms[k] ELSE best)

\* GeoLlama.translate_name (main.py:126-155) with found the answer of
\* Nominatim: matches[0] raises on None and on an empty list
translate_name(name, found) ==
    IF found.t = "None" \/ found.v = <<>>
    THEN name \o " (unable to translate place name)"
    ELSE split(closest(found.v, 1, found.v[1]).address, ",")[1]

\* the decimal numeral of a natural number
RECURSIVE NaturalText(_)
NaturalText(n) ==
    LET d == SubSeq("0123456789", (n % 10) + 1, (n % 10) + 1)
    IN IF n < 10 THEN d ELSE NaturalText(n \div 10) \o d

\* the last width digits of n
RECURSIVE Padded(_, _)
Padded(n, width) ==
    IF width = 0 THEN ""
    ELSE Padded(n \div 10, width - 1) \o NaturalText(n % 10)

\* the digits after the point of a float given in units of 0.0001: width
\* digits without the zeros at the end, one digit at least
RECURSIVE Fraction(_, _)
Fraction(f, width) ==
    IF width > 1 /\ f % 10 = 0 THEN Fraction(f \div 10, width - 1)
    ELSE Padded(f, width)

\* str(x) of a coordinate as the f-string of the tooltip writes it (main.py:194)
str(x) ==
    IF x.t = "None" THEN "None"
    ELSE (IF x.v < 0 THEN "-" ELSE "")
         \o NaturalText(Abs(x.v) \div 10000) \o "." \o Fraction(Abs(x.v) % 10000, 4)

\* the tooltip of one location (main.py:194)
tooltip_html(loc, name) ==
    "<span style=\"background-color: yellow;\" title=\"Toponym: " \o name
    \o " \n Coordinates: (" \o str(loc.latitude) \o ", " \o str(loc.longitude)
    \o ")\">" \o loc.name \o "</span>"

\* the loop over the locations (main.py:179-195) from the k-th location on:
\* translated holds the names handed to translate_name and names the name
\* written in each tooltip
RECURSIVE pipeline_loop(_, _, _, _, _, _, _, _)
pipeline_loop(translation_option, geocode, locations, k, processed_text, translate_cache, translated, names) ==
    IF k > Len(locations)
    THEN [processed_text |-> processed_text, translate_cache |-> translate_cache,
          calls |-> translated, names |-> names]
    ELSE LET loc == locations[k]
             cached == loc.name \in DOMAIN translate_cache
             name == IF translation_option = "With translation" THEN loc.name
                     ELSE IF cached THEN translate_cache[loc.name]
                     ELSE translate_name(loc.name, geocode[loc.name])
             called == translation_option # "With translation" /\ ~cached
         IN pipeline_loop(translation_option, geocode, locations, k + 1,
                replace(processed_text, loc.name, tooltip_html(loc, name)),
                IF called THEN DictUpdate(translate_cache, loc.name, name)
                ELSE translate_cache,
                IF called THEN Append(translated, loc.name) ELSE translated,
                Append(names, name))

\* plot_map (plotting.py:8-25): the columns of an empty frame do not exist,
\* the bounds of the map ask for float(latitude) and float(longitude) of each
\* location, and the name of each location is looked up in translate_cache.
\* Of the figure the names, latitudes and longitudes are kept.
plot_map(json_locations, translate_cache) ==
    IF json_locations = <<>> THEN Raise("KeyError")
    ELSE IF \E k \in 1..Len(json_locations) :
               json_locations[k].latitude.t = "None" \/ json_locations[k].longitude.t = "None"
    THEN Raise("TypeError")
    ELSE IF \E k \in 1..Len(json_locations) :
               json_locations[k].name \notin DOMAIN translate_cache
    THEN Raise("KeyError")
    ELSE Ret([customdata |-> [k \in 1..Len(json_locations) |->
                                 translate_cache[json_locations[k].name]],
              lat |-> [k \in 1..Len(json_locations) |-> json_locations[k].latitude],
              lon |-> [k \in 1..Len(json_locations) |-> json_locations[k].longitude]])

\* GeoLlama.geoparse_pipeline (main.py:158-199) with located the outcome of
\* geoparse on the processed text and geocode the answers of Nominatim
geoparse_pipeline(t, translation_option, located, geocode) ==
    LET processed_text == IF translation_option = "With Translation"
                          THEN Translator_translate(t).translation
                          ELSE t.text
    IN IF located.kind = "raise"
       THEN [kind |-> "raise", value |-> PyNone, exc |-> located.exc,
             calls |-> <<>>, names |-> <<>>]
       ELSE LET run == pipeline_loop(translation_option, geocode, located.value.v, 1,
                                     processed_text, <<>>, <<>>, <<>>)
                mapped == plot_map(located.value.v, run.translate_cache)
            IN [kind |-> mapped.kind,
                value |-> IF mapped.kind = "raise" THEN PyNone
                          ELSE [processed_text |-> run.processed_text,
                                mapped |-> mapped.value],
                exc |-> mapped.exc,
                calls |-> run.calls, names |-> run.names]

\* main.py:158-199
GeoparsePipeline ==
    /\ fn = "-"
    /\ \E t \in PipelineTexts, translation_option \in TranslationOptions,
          located \in GeoparseOutcomes,
          geocode \in [{"Parijs", "Paris"} -> GeocodeAnswers] :
          /\ inputs' = [text |-> t.text, translation_option |-> translation_option,
                        located |-> located, geocode |-> geocode]
          /\ ret' \in {geoparse_pipeline(t, translation_option, located, geocode)}
    /\ fn' = "geoparse_pipeline"
    /\ PureFrame

NextPure ==
    \/ ValidateToponyms
    \/ TopoFixJson
    \/ TopoCleanResponse
    \/ ValidateJson
    \/ AddMissingKeys
    \/ GetWord
    \/ ExtractWords
    \/ RagFixJson
    \/ RagCleanResponse
    \/ GeoparsePipeline

SpecPure == InitPure /\ [][NextPure]_vars

\* the gazetteer of the pipeline has the credential its backend asks for
Configured == NominatimBacked \/ (GeoNamesBacked /\ HasUsername)

EventsOf(ev) == SelectSeq(events, LAMBDA e : e.ev = ev)

\* C11: for a string text, once the extraction stage has returned its
\* toponyms, geoparse returns a list with exactly one record per toponym, in
\* the same order, having made exactly one gazetteer lookup and one
\* disambiguation call per toponym; with no toponym it returns the empty
\* list and makes no lookup and no disambiguation call.
C11_OneRecordPerToponym ==
    (gp_pc = "done" /\ text.t = "str" /\ idx >= 1 /\ Configured)
        => /\ result.kind = "return" /\ result.value.t = "list"
           /\ Len(result.value.v) = Len(toponyms)
           /\ Len(EventsOf("matches")) = Len(toponyms)
           /\ Len(EventsOf("location")) = Len(toponyms)
           /\ \A i \in 1..Len(toponyms) :
                 /\ EventsOf("matches")[i].toponym = toponyms[i]
                 /\ EventsOf("location")[i].toponym = toponyms[i]

\* C12: when the disambiguation call, or the repair of its answer, fails for
\* a toponym, geoparse still handles every other toponym and returns a list
\* whose record for the failed toponym has null latitude and longitude; the
\* failure does not reach the caller of geoparse.
C12_OracleFailureContained ==
    (gp_pc = "done" /\ \E i \in 1..Len(answers) : answers[i].outcome = "raise")
        => /\ result.kind = "return"
           /\ Len(result.value.v) = Len(toponyms)
           /\ \A i \in 1..Len(answers) :
                 answers[i].outcome = "raise"
                    => /\ result.value.v[i].latitude.t = "None"
                       /\ result.value.v[i].longitude.t = "None"

\* C13: the calls of a geoparse run are ordered: the extraction call comes
\* first and only once; then, toponym by toponym, the gazetteer lookup of
\* toponym i and then its disambiguation call, which is given the original
\* text, that toponym and exactly the candidates its lookup returned; the
\* lookup of toponym i+1 comes after the disambiguation of toponym i.
C13_CallsInOrder ==
    \A k \in 1..Len(events) :
        /\ events[k].text = text
        /\ (events[k].ev = "toponyms") = (k = 1)
        /\ k > 1 =>
              /\ events[k].ev = (IF k % 2 = 0 THEN "matches" ELSE "location")
              /\ events[k].toponym = toponyms[k \div 2]
              /\ events[k].ev = "location" => events[k].matches = events[k - 1].matches

\* geoparse has returned after two toponyms whose lookups found candidates
C13_Witness ==
    /\ gp_pc = "done" /\ result.kind = "return" /\ Len(events) = 5
    /\ events[2].matches # <<>> /\ events[3].matches = events[2].matches
    /\ events[4].toponym # events[2].toponym

\* C15: every name in a record geoparse returns is a literal substring of
\* the text, whatever the two models answer.
C15_NamesFromText ==
    (gp_pc = "done" /\ result.kind = "return")
        => \A i \in 1..Len(result.value.v) : IsSubstring(result.value.v[i].name, text.v)

NoDuplicates(l) == \A i, j \in 1..Len(l) : l[i] = l[j] => i = j
Elements(l) == {l[i] : i \in 1..Len(l)}

\* C14: validate_toponyms(toponyms, text) returns exactly the subsequence of
\* toponyms made of the elements that are literal substrings of text: each
\* returned element is a substring, each input element that is a substring
\* is returned, in the order of the input, duplicates kept.
C14_ValidateToponyms ==
    fn = "validate_toponyms" =>
        LET kept == {k \in 1..Len(inputs.toponyms) :
                        IsSubstring(inputs.toponyms[k], inputs.text)}
            nth(i) == CHOOSE k \in kept : Cardinality({j \in kept : j < k}) = i - 1
        IN /\ ret.kind = "return"
           /\ Len(ret.value.v) = Cardinality(kept)
           /\ \A i \in 1..Len(ret.value.v) : ret.value.v[i] = inputs.toponyms[nth(i)]

\* a list with a repeated toponym of the text and one that is not in the
\* text has been validated
C14_Witness ==
    /\ fn = "validate_toponyms"
    /\ inputs = [toponyms |-> <<"Rome", "Oslo", "Rome">>, text |-> "Paris, Rome"]
    /\ ret = Ret(PyList(<<"Rome", "Rome">>))

\* C16: the toponym list clean_response returns holds no toponym twice,
\* whether the answer was valid JSON or had to be repaired.
C16_CleanResponseUnique ==
    (fn = "clean_response" /\ ret.kind = "return")
        => NoDuplicates(ret.value.v.toponyms.v)

(***************************************************************************)
(* The items of a list text: the text is the first cut characters of       *)
(* Render(items, style); an item is in it as far as its characters are.    *)
(***************************************************************************)
Opening(style) == IF style = "spaced" THEN "{\"toponyms\": [" ELSE "{\"toponyms\":["
Separator(style) == IF style = "spaced" THEN ", " ELSE ","

\* the position of the opening quote of item k
RECURSIVE ItemStart(_, _, _)
ItemStart(items, style, k) ==
    IF k = 1 THEN Len(Opening(style)) + 1
    ELSE ItemStart(items, style, k - 1) + Len(items[k - 1]) + 2 + Len(Separator(style))

ItemsOfText(items, style, cut) ==
    {SubSeq(items[k], 1, IF cut - ItemStart(items, style, k) < Len(items[k])
                         THEN cut - ItemStart(items, style, k) ELSE Len(items[k])) :
        k \in {j \in 1..Len(items) : cut > ItemStart(items, style, j)}}

\* C17: fix_json recovers a truncated toponym list: for a list text cut off
\* after the array opening, in the middle of an item or after it, the result
\* contains every complete item and the truncated prefix of the last item.
C17_FixJsonTruncated ==
    (/\ fn = "fix_json" /\ inputs.tail = ""
     /\ inputs.cut < Len(Render(inputs.items, inputs.style))
     /\ ItemsOfText(inputs.items, inputs.style, inputs.cut) # {})
        => /\ ret.kind = "return"
           /\ ItemsOfText(inputs.items, inputs.style, inputs.cut)
                \subseteq Elements(ret.value.v.toponyms.v)

\* C18: the list fix_json returns has no duplicates and no empty string, and
\* as a set it is the set of non-empty items of the list text.
C18_FixJsonItems ==
    (fn = "fix_json" /\ ret.kind = "return")
        => /\ NoDuplicates(ret.value.v.toponyms.v)
           /\ "" \notin Elements(ret.value.v.toponyms.v)
           /\ Elements(ret.value.v.toponyms.v)
                = ItemsOfText(inputs.items, inputs.style, inputs.cut)

\* the record validate_json was given, but for RAG_estimated
Others(d) == [k \in DOMAIN d \ {"RAG_estimated"} |-> d[k]]

\* candidate m lies within the tolerance of the record d on both axes
Near(m, d) ==
    /\ Abs(float(m.lat) - d["latitude"].v) <= Tolerance
    /\ Abs(float(m.lon) - d["longitude"].v) <= Tolerance

\* C19: for a record with numeric latitude and longitude and a non-empty
\* candidate list, validate_json sets RAG_estimated to true exactly when one
\* candidate is within 0.001 of the record in latitude and in longitude,
\* whatever RAG_estimated was before, and changes no other field.
C19_ValidateJsonFlag ==
    (/\ fn = "validate_json" /\ Len(inputs.matches) > 0
     /\ {"latitude", "longitude"} \subseteq DOMAIN inputs.json_dict
     /\ inputs.json_dict["latitude"].t = "float"
     /\ inputs.json_dict["longitude"].t = "float")
        => /\ ret.kind = "return"
           /\ "RAG_estimated" \in DOMAIN ret.value.v
           /\ ret.value.v["RAG_estimated"]
                = (\E i \in 1..Len(inputs.matches) : Near(inputs.matches[i], inputs.json_dict))
           /\ Others(ret.value.v) = Others(inputs.json_dict)

\* a record marked true has lost the mark: one candidate is near in latitude
\* only, the other in longitude only
C19_Witness ==
    /\ fn = "validate_json"
    /\ inputs.json_dict = [latitude |-> PyFloat(0), longitude |-> PyFloat(0),
                           RAG_estimated |-> TRUE]
    /\ inputs.matches = <<[lat |-> "0.0001", lon |-> "0.01"], [lat |-> "0.01", lon |-> "0.0001"]>>
    /\ ret = Ret(PyDict([latitude |-> PyFloat(0), longitude |-> PyFloat(0),
                         RAG_estimated |-> FALSE]))

\* C20: with an empty candidate list validate_json sets RAG_estimated to
\* false and returns, also for a record without latitude or longitude, and
\* changes no other field.
C20_ValidateJsonEmpty ==
    (fn = "validate_json" /\ Len(inputs.matches) = 0)
        => /\ ret.kind = "return"
           /\ "RAG_estimated" \in DOMAIN ret.value.v
           /\ ret.value.v["RAG_estimated"] = FALSE
           /\ Others(ret.value.v) = Others(inputs.json_dict)

\* a record with a name only, validated against no candidate
C20_Witness ==
    /\ fn = "validate_json" /\ inputs.matches = <<>>
    /\ inputs.json_dict = [name |-> "paris"]
    /\ ret = Ret(PyDict([name |-> "paris", RAG_estimated |-> FALSE]))

\* C24: when every expected key is already in the token list,
\* add_missing_keys returns the list unchanged, and for every input applying
\* add_missing_keys to its result gives that result again.
C24_AddMissingKeysIdempotent ==
    fn = "add_missing_keys"
        => /\ (\A k \in 1..Len(expected_keys) : In(expected_keys[k], inputs.words))
                => ret.value.v = inputs.words
           /\ add_missing_keys(ret.value.v, expected_keys) = ret.value.v

\* a call on a list that has every key, and one on a list that lacks some
C24_Witness ==
    /\ fn = "add_missing_keys"
    /\ \A k \in 1..Len(expected_keys) : In(expected_keys[k], inputs.words)
    /\ Len(inputs.words) >= 8
    /\ ret.value.v = inputs.words

\* the positions of x in l
Positions(l, x) == {k \in 1..Len(l) : l[k] = x}
Least(S) == CHOOSE k \in S : \A j \in S : k <= j

\* the tokens of words strictly between positions a and b
Between(words, a, b) == [k \in 1..(IF b - a - 1 > 0 THEN b - a - 1 ELSE 0) |-> words[a + k]]

\* C25: get_word(words, start_word, stop_word) returns the tokens strictly
\* between the first occurrence of start_word and the first occurrence of
\* stop_word, joined by single spaces; with start_word None the span starts
\* at the first token, with stop_word None it runs to the last token.
C25_GetWordSpan ==
    (/\ fn = "get_word"
     /\ inputs.start_word.t = "str" => In(inputs.start_word.v, inputs.words)
     /\ inputs.stop_word.t = "str" => In(inputs.stop_word.v, inputs.words))
        => LET words == inputs.words
               a == IF inputs.start_word.t = "None" THEN 0
                    ELSE Least(Positions(words, inputs.start_word.v))
               b == IF inputs.stop_word.t = "None" THEN Len(words) + 1
                    ELSE Least(Positions(words, inputs.stop_word.v))
           IN ret = Ret(PyStr(join(" ", Between(words, a, b))))

\* a span of three tokens between two keys
C25_Witness ==
    /\ fn = "get_word"
    /\ inputs.start_word = PyStr("name") /\ inputs.stop_word = PyStr("latitude")
    /\ ret = Ret(PyStr("Rio de Janeiro"))

\* the place of a key in the schema, 0 for a token that is no key
KeyRank(w) == IF In(w, expected_keys) THEN index(expected_keys, w) + 1 ELSE 0

\* [key, value, key, value, ...] with the keys in schema order
IsKeyValueList(words) ==
    /\ Len(words) % 2 = 0
    /\ \A k \in 1..Len(words) : (k % 2 = 1) <=> KeyRank(words[k]) > 0
    /\ \A j, k \in 1..Len(words) :
          (j < k /\ j % 2 = 1 /\ k % 2 = 1) => KeyRank(words[j]) < KeyRank(words[k])

\* l without the tokens at the positions in S
RECURSIVE Without(_, _, _)
Without(l, S, k) ==
    IF k > Len(l) THEN <<>>
    ELSE (IF k \in S THEN <<>> ELSE <<l[k]>>) \o Without(l, S, k + 1)

\* C23: for a key/value token list with its keys in schema order, whatever
\* keys are absent, add_missing_keys returns a list in which every
\* expected key occurs exactly once, the keys are in schema order, each
\* inserted key is immediately followed by its default 'False', and the
\* tokens that were present keep their relative order.
C23_AddMissingKeysOrder ==
    (fn = "add_missing_keys" /\ IsKeyValueList(inputs.words))
        => LET words == inputs.words
               out == ret.value.v
               Inserted == {k \in 1..Len(out) :
                               KeyRank(out[k]) > 0 /\ ~In(out[k], words)}
           IN /\ \A e \in 1..Len(expected_keys) :
                    Cardinality(Positions(out, expected_keys[e])) = 1
              /\ \A j, k \in 1..Len(out) :
                    (j < k /\ KeyRank(out[j]) > 0 /\ KeyRank(out[k]) > 0)
                        => KeyRank(out[j]) < KeyRank(out[k])
              /\ \A k \in Inserted : k < Len(out) /\ out[k + 1] = "False"
              /\ Without(out, Inserted \cup {k + 1 : k \in Inserted}, 1) = words

\* s[i..j] is a run of word characters joined by single hyphens, periods or
\* apostrophes, and no longer run holds it
IsRun(s, i, j) ==
    /\ IsWordChar(At(s, i)) /\ IsWordChar(At(s, j))
    /\ \A k \in i..j :
          \/ IsWordChar(At(s, k))
          \/ At(s, k) \in Joiners /\ IsWordChar(At(s, k - 1)) /\ IsWordChar(At(s, k + 1))
    /\ ~IsWordChar(At(s, i - 1)) /\ ~(At(s, i - 1) \in Joiners /\ IsWordChar(At(s, i - 2)))
    /\ ~IsWordChar(At(s, j + 1)) /\ ~(At(s, j + 1) \in Joiners /\ IsWordChar(At(s, j + 2)))

Runs(s) == {r \in (1..Len(s)) \X (1..Len(s)) : r[1] <= r[2] /\ IsRun(s, r[1], r[2])}

\* the token of a run: the run, with its sign when it is a decimal number
TokenOfRun(s, r) ==
    IF At(s, r[1] - 1) = "-" /\ IsDecimal(SubSeq(s, r[1], r[2]))
    THEN SubSeq(s, r[1] - 1, r[2])
    ELSE SubSeq(s, r[1], r[2])

Separators == {"{", "}", ":", ",", "\"", " "}

\* C26: extract_words returns the tokens of its input in input order: each
\* run of word characters joined by internal hyphens, periods or apostrophes
\* is one token, a signed decimal number is one token with its sign, and
\* braces, colons, commas, quote marks and blanks are in no token.
C26_ExtractWordsTokens ==
    fn = "extract_words"
        => LET s == inputs.json_str
               out == ret.value.v
               n == Cardinality(Runs(s))
               ordered == CHOOSE l \in [1..n -> Runs(s)] :
                              \A j, k \in 1..n : j < k => l[j][1] < l[k][1]
           IN /\ out = [k \in 1..n |-> TokenOfRun(s, ordered[k])]
              /\ \A k \in 1..Len(out) : \A c \in 1..Len(out[k]) :
                    At(out[k], c) \notin Separators

\* the text written for a key of the answer: what follows the key, its
\* quote and its colon, up to the next comma or brace or the end
RECURSIVE SkipOver(_, _)
SkipOver(s, S) == IF At(s, 1) \in S THEN SkipOver(SubSeq(s, 2, Len(s)), S) ELSE s

RECURSIVE UpTo(_, _)
UpTo(s, S) == IF s = "" \/ At(s, 1) \in S THEN "" ELSE At(s, 1) \o UpTo(SubSeq(s, 2, Len(s)), S)

ValueText(resp, key) ==
    UpTo(SkipOver(SubSeq(resp, Find(resp, key) + Len(key), Len(resp)), {"\"", "'", ":", " "}),
         {",", "}"})

\* the answer writes no number for the key: the key is not in it, or its
\* value has no digit
NoNumberFor(resp, key) ==
    \/ Find(resp, key) = 0
    \/ \A k \in 1..Len(ValueText(resp, key)) : ~isnumeric(At(ValueText(resp, key), k))

\* C21: when the answer omits latitude or longitude, or gives a value that
\* is no number, the record clean_response returns has that coordinate
\* null: no default stands in for it, and none is compared with the
\* candidates, so the record is not marked RAG_estimated.
C21_NoFabricatedCoordinate ==
    (fn = "RAGModel.clean_response" /\ ret.kind = "return")
        => \A key \in {"latitude", "longitude"} :
              NoNumberFor(inputs.response, key)
                 => /\ key \in DOMAIN ret.value.v => ret.value.v[key].t = "None"
                    /\ inputs.validation.t # "None" => ret.value.v["RAG_estimated"] = FALSE

\* C22: for every answer (cut, with keys left out, with a value that is no
\* number, with no boolean), fix_json returns a complete record, and so
\* does clean_response when the answer is no JSON document; no exception
\* leaves them.
C22_RepairNeverRaises ==
    /\ fn = "RAGModel.fix_json"
          => ret.kind = "return"
             /\ DOMAIN ret.value.v = {"name", "latitude", "longitude", "RAG_estimated"}
    /\ (fn = "RAGModel.clean_response" /\ Len(ret.called) = 2
            /\ inputs.validation \in {PyNone, PyList(<<>>)})
          => ret.kind = "return"
             /\ DOMAIN ret.value.v = {"name", "latitude", "longitude", "RAG_estimated"}

\* the answer as clean_response hands it to json.loads
Cleaned(resp) ==
    replace(replace(replace(resp, "'", "\""), "True", "true"), "False", "false")

\* C28: clean_response parses in two stages: once single quotes are
\* replaced by double quotes and True/False by true/false, a text that is
\* valid JSON is parsed by json.loads alone and the parsed record returned;
\* fix_json is called exactly when that parse fails.
C28_TwoStageParse ==
    fn = "RAGModel.clean_response"
        => LET parsed == json_loads(Cleaned(inputs.response))
           IN IF parsed.kind = "return"
              THEN /\ ret.called = <<"json.loads">>
                   /\ inputs.validation.t = "None"
                         => ret.kind = "return" /\ ret.value = parsed.value
              ELSE ret.called = <<"json.loads", "fix_json">>

\* an answer in single quotes with a capital True is parsed without fix_json
C28_Witness ==
    /\ fn = "RAGModel.clean_response"
    /\ Find(inputs.response, "'") # 0 /\ Find(inputs.response, "True") # 0
    /\ inputs.validation.t = "None"
    /\ ret.called = <<"json.loads">>
    /\ ret.kind = "return"
    /\ DOMAIN ret.value.v = {"name", "latitude", "longitude", "RAG_estimated"}

\* the tokens written for a key: those after its first occurrence, up to the
\* next key of the schema or the end
NextKey(words, a) ==
    LET Later == {k \in (a + 1)..Len(words) : KeyRank(words[k]) > 0}
    IN IF Later = {} THEN Len(words) + 1 ELSE Least(Later)
Written(words, key) ==
    LET a == Least(Positions(words, key))
    IN join(" ", Between(words, a, NextKey(words, a)))

\* the answer has its name, lacks exactly one other key, and writes a number
\* for each coordinate it has and a boolean for the flag if it has it
OneKeyMissing(words) ==
    /\ In("name", words)
    /\ Cardinality({k \in 1..Len(expected_keys) : ~In(expected_keys[k], words)}) = 1
    /\ \A key \in {"latitude", "longitude"} :
          In(key, words) => IsNumeral(Written(words, key))
    /\ In("RAG_estimated", words)
          => lower(Written(words, "RAG_estimated")) \in {"true", "false"}

\* C30: when fix_json repairs an answer that lacks a field, the name it
\* returns is the whole span of tokens written between the name key and the
\* next key, however many tokens the name has: no inserted key lands inside
\* the value of another field.
C30_NameSpanKept ==
    (fn = "RAGModel.fix_json" /\ OneKeyMissing(extract_words(inputs.json_str)))
        => /\ ret.kind = "return"
           /\ ret.value.v["name"] = Written(extract_words(inputs.json_str), "name")

\* the record the first disambiguation answer holds, when it is a JSON document
FirstAnswer == json_loads(answers[1].response).value.v

\* one toponym was extracted, the gazetteer returned candidates for it, and
\* the disambiguation answer is a record whose coordinates lie within the
\* tolerance of one of them
NearAnswer ==
    /\ gp_pc = "done" /\ text.t = "str"
    /\ Len(toponyms) = 1 /\ IsSubstring(toponyms[1], text.v)
    /\ Len(events) >= 2 /\ events[2].ev = "matches" /\ events[2].matches # <<>>
    /\ Len(answers) = 1 /\ answers[1].kind = "text"
    /\ json_loads(answers[1].response).kind = "return"
    /\ FirstAnswer["latitude"].t = "float" /\ FirstAnswer["longitude"].t = "float"
    /\ \E k \in 1..Len(events[2].matches) : Near(events[2].matches[k], FirstAnswer)

\* C27: end to end, when the extraction model returns a toponym of the
\* text, the gazetteer returns a candidate for it and the disambiguation
\* model returns coordinates within the tolerance of that candidate,
\* geoparse returns a single record, the one the disambiguation model
\* answered for that toponym, with RAG_estimated true.
C27_EndToEnd ==
    NearAnswer
        => /\ result.kind = "return" /\ result.value.t = "list"
           /\ Len(result.value.v) = 1
           /\ result.value.v[1] = DictUpdate(FirstAnswer, "RAG_estimated", TRUE)

\* such a run, with two candidates of which the first is the near one
C27_Witness ==
    /\ NearAnswer
    /\ Len(events[2].matches) = 2
    /\ result.kind = "return"
    /\ result.value.v[1]["RAG_estimated"] = TRUE

\* C29: in geoparse_pipeline, when the text has been translated
\* (translation_option 'With Translation'), the place names are not
\* translated again: translate_name is called for no location and the name
\* in each tooltip is the name of the location itself.
C29_NamesNotTranslatedAgain ==
    (fn = "geoparse_pipeline" /\ inputs.translation_option = "With Translation")
        => /\ ret.calls = <<>>
           /\ \A k \in 1..Len(ret.names) : ret.names[k] = inputs.located.value.v[k].name

====
